---- MODULE Spec2Model ----
(***************************************************************************)
(* r-pipeline: the stage chain (Pipe) and its synchronous / asynchronous   *)
(* drivers, and the layer stack (stackLayer / stackAsyncLayer).            *)
(*                                                                         *)
(* Values, errors and awaitables share one record shape so that any two    *)
(* of them can be compared:                                                *)
(*   tag  "val" | "err" | "null" | "obj"                                   *)
(*   n    the number carried by a value                                    *)
(*   msg  the message of an Error                                          *)
(*   aw   TRUE for a thenable that resolves to the rest of the record      *)
(***************************************************************************)
EXTENDS Integers, Sequences, FiniteSets, TLC

VARIABLES
    nodes,        \* the Pipe objects, in creation order (fields of class Pipe)
    last,         \* observation of the most recent stream/streamAsync call
    twin,         \* the chain built the same way but without its window stages
    flight,       \* the streamAsync calls of the chain that are under way
    lstack,       \* the layers given to stackLayer / stackAsyncLayer
    lmode,        \* "sync" (stackLayer) or "async" (stackAsyncLayer)
    entryLayers,  \* closure variable entryLayers of the stack
    exitLayers,   \* closure variable exitLayers of the stack
    lref,         \* ref.current of every layer (makeLayer)
    lctx,         \* the counter kept in every layer's context
    lpc,          \* position inside the layered operation
    lcur,         \* locals of the running invocation: layeredInput, output.value, retry
    lobs,         \* observation of the running / most recent layered invocation
    linv          \* the invocations of an asynchronous layered operation that overlap

pipeVars == <<nodes, last, twin, flight>>
layerVars == <<lstack, lmode, entryLayers, exitLayers, lref, lctx, lpc, lcur, lobs, linv>>
vars == <<nodes, last, twin, flight, lstack, lmode, entryLayers, exitLayers, lref, lctx, lpc, lcur, lobs, linv>>

-----------------------------------------------------------------------------
(* Bounds *)

MaxStages == 4
MaxLayers == 2
MaxCalls == 2
MaxParStages == 3
MaxOverlapCalls == 10
MaxBranchStages == 3
MaxWindowStages == 4
MaxFlights == 2
MaxForkStages == 3

-----------------------------------------------------------------------------
(* Values *)

Val(k) == [tag |-> "val", n |-> k, msg |-> "", aw |-> FALSE]
Err(m) == [tag |-> "err", n |-> 0, msg |-> m, aw |-> FALSE]
NULL == [tag |-> "null", n |-> 0, msg |-> "", aw |-> FALSE]

\* the empty object {}
EmptyObject == [tag |-> "obj", n |-> 0, msg |-> "", aw |-> FALSE]

\* an async function returning x: a thenable that resolves to x
Promise(x) == [x EXCEPT !.aw = TRUE]
\* variant: the thenable is handed on unresolved
NoAwait(x) == x

\* await x: the value itself when x is not a thenable
Await(x) == [x EXCEPT !.aw = FALSE]

isThenable(x) == x.aw

isError(x) == x.tag = "err" /\ ~x.aw

ThenableMsg == "Cannot use thenable function. Please use streamAsync()"
InputMsg == "Pipeline input data is null"

-----------------------------------------------------------------------------
(* PipeResult *)

EmptyResult == [kind |-> "empty", value |-> NULL, origin |-> NULL, stage |-> ""]

makePipeSuccess(ret) == [kind |-> "success", value |-> ret, origin |-> NULL, stage |-> ""]

makePipeError(error, origin, stage) ==
    [kind |-> "error", value |-> error, origin |-> origin, stage |-> stage]

inputError(stage) == makePipeError(Err(InputMsg), NULL, stage)

\* variant: the awaitable is reported with the message of the missing-input guard
thenableErrorAsInput(stage) == makePipeError(Err(InputMsg), NULL, stage)

thenableError(stage) == makePipeError(Err(ThenableMsg), NULL, stage)

-----------------------------------------------------------------------------
(* Stage handlers and recovery handlers the chains are built from *)

HeadHandlers == {"dbl", "chk", "fail", "async"}

JointMenu ==
    { [h |-> "inc", r |-> "pass"], [h |-> "tpl", r |-> "pass"],
      [h |-> "fail", r |-> "pass"], [h |-> "async", r |-> "pass"] }

RepairMenu == {"parent", "rfail", "rasync"}

Inputs == {5, 6}

\* handler(input)
ApplyHandler(h, x) ==
    CASE h = "dbl" -> Val(x.n * 2)
      [] h = "inc" -> Val(x.n + 1)
      [] h = "tpl" -> Val(x.n * 3)
      [] h = "id" -> x
      [] h = "fail" -> Err("e")
      [] h = "chk" -> IF x.n % 2 = 1 THEN Err("odd") ELSE x
      [] h = "async" -> Promise(Val(x.n + 1))

\* variant: the default recovery swallows the error
errorSwallowed(error) == Val(0)

errorPassthrough(error) == error

\* recoverHandler(error, parentInput)
ApplyRecover(r, error, origin) ==
    CASE r = "pass" -> errorPassthrough(error)
      [] r = "parent" -> IF origin = NULL THEN Val(0) ELSE origin
      [] r = "rfail" -> Err("r")
      [] r = "rasync" -> Promise(IF origin = NULL THEN Val(0) ELSE origin)

-----------------------------------------------------------------------------
(* class Pipe *)

\* the handler of the stage is not one built by a parallel combinator
NoPar == [form |-> "none", failFast |-> TRUE, entries |-> <<>>]

\* what the handlers built by branch / branchAsync and by window close over:
\* the objects of the sub-chain (the Pipe given is the last of them) and the
\* variable errorStore
NoEnv == [pipe |-> <<>>, errorStore |-> NULL]

\* new Pipe(parent, handler, recoverHandler, stage): the fields of the new object
NewPipe(parent, start, handler, recoverHandler) ==
    [parent |-> parent, start |-> start, next |-> 0, entryInput |-> NULL,
     handler |-> handler, recoverHandler |-> recoverHandler,
     stage |-> "no name", result |-> EmptyResult, par |-> NoPar, env |-> NoEnv]

\* one record of the call log: which function of which node was called on what
HandlerCall(i, x) == [node |-> i, fn |-> "handler", arg |-> x, origin |-> NULL]
RecoverCall(i, e, o) == [node |-> i, fn |-> "recover", arg |-> e, origin |-> o]

\* variant: the failing stage's input is not kept with the error
setResultNoOrigin(node, result, input) ==
    IF isError(result)
    THEN [node EXCEPT !.result = makePipeError(result, NULL, node.stage)]
    ELSE [node EXCEPT !.result = makePipeSuccess(result)]

\* variant: the handler's result is not stored
setResultDropped(node, result, input) == node

setResult(node, result, input) ==
    IF isError(result)
    THEN [node EXCEPT !.result = makePipeError(result, input, node.stage)]
    ELSE [node EXCEPT !.result = makePipeSuccess(result)]

\* variant: the reported Error carries the stage text
getErrorStaged(ns, i) ==
    IF ns[i].result.kind = "error"
    THEN [found |-> TRUE, error |-> [ns[i].result.value EXCEPT !.msg = ns[i].result.stage], up |-> 0]
    ELSE [found |-> FALSE, error |-> NULL, up |-> ns[i].parent]

\* getError: the node's Error, or the parent to look at next (0 for null)
getError(ns, i) ==
    IF ns[i].result.kind = "error"
    THEN [found |-> TRUE, error |-> ns[i].result.value, up |-> 0]
    ELSE [found |-> FALSE, error |-> NULL, up |-> ns[i].parent]

RECURSIVE getStreamError(_, _)
getStreamError(ns, current) ==
    IF current = 0
    THEN NULL
    ELSE LET result == getError(ns, current)
         IN IF result.found THEN result.error ELSE getStreamError(ns, result.up)

\* variant: the Result is read from the chain head instead of the invoked node
getStreamResultOfStart(ns, i) ==
    IF ns[ns[i].start].result.kind = "success"
    THEN ns[ns[i].start].result.value
    ELSE LET streamError == getStreamError(ns, ns[i].start)
         IN IF streamError # NULL THEN streamError ELSE Err("Result not found")

\* variant: the invoked node's outcome is returned as it is stored
getStreamResultStored(ns, i) == ns[i].result.value

\* variant: the Result is read from the last appended node
getStreamResultOfLast(ns, i) ==
    IF ns[Len(ns)].result.kind = "success"
    THEN ns[Len(ns)].result.value
    ELSE LET streamError == getStreamError(ns, Len(ns))
         IN IF streamError # NULL THEN streamError ELSE Err("Result not found")

getStreamResult(ns, i) ==
    IF ns[i].result.kind = "success"
    THEN ns[i].result.value
    ELSE LET streamError == getStreamError(ns, i)
         IN IF streamError # NULL THEN streamError ELSE Err("Result not found")

-----------------------------------------------------------------------------
(* Parallel stages: parallelJoint, keyedParallelJoint, parallelBranch and
   keyedParallelBranch. A parallel stage is a joint whose handler is built
   from the handlers (or sub-chains) it is given:
     form      "array" | "keyed"
     failFast  the failFast argument
     entries   the handlers in the order of the array / of Object.keys, each
               [key, h, lat, sub]: the key (the index for an array), the
               handler, how late its result arrives (0: the handler is
               synchronous or settles at once) and whether it is the
               sub-chain Pipe.from(h) called through streamAsync            *)

\* an array or keyed object of results; items holds [key, v] in the order of
\* Object.values
Collected(form, items) ==
    [tag |-> form, n |-> 0, msg |-> "", aw |-> FALSE, items |-> items]

\* pipe.streamAsync(x) of the sub-chain pipe = Pipe.from(h)
SubStreamAsync(h, x) ==
    LET pipe == [NewPipe(0, 1, h, "pass") EXCEPT !.entryInput = x]
    IN getStreamResult(<<setResult(pipe, Await(ApplyHandler(h, x)), x)>>, 1)

\* await handlers[key](input) / await pipes[key].streamAsync(input)
EntryResult(e, x) ==
    IF e.sub THEN SubStreamAsync(e.h, x) ELSE Await(ApplyHandler(e.h, x))

\* the order in which the results arrive: by lateness, and in call order among
\* results that arrive together
CompletionOrder(entries) ==
    LET n == Len(entries)
        Before(i, j) ==
            \/ entries[i].lat < entries[j].lat
            \/ entries[i].lat = entries[j].lat /\ i < j
    IN [q \in 1..n |-> CHOOSE i \in 1..n : Cardinality({j \in 1..n : Before(j, i)}) = q - 1]

\* variant: the results are stored under the keys in the order of arrival
ParallelResultsMisfiled(par, x) ==
    LET order == CompletionOrder(par.entries)
    IN [q \in 1..Len(par.entries) |->
           [key |-> par.entries[q].key, v |-> EntryResult(par.entries[order[q]], x)]]

\* results after await Promise.all(...): Promise.all keeps the array positions;
\* the keyed form runs results[key] = result as each result arrives, so the
\* object's own key order is the order of arrival
ParallelResults(par, x) ==
    LET order == CompletionOrder(par.entries)
    IN IF par.form = "array"
       THEN [q \in 1..Len(par.entries) |->
                [key |-> par.entries[q].key, v |-> EntryResult(par.entries[q], x)]]
       ELSE [q \in 1..Len(par.entries) |->
                [key |-> par.entries[order[q]].key,
                 v |-> EntryResult(par.entries[order[q]], x)]]

\* Object.values(results).find(result => result instanceof Error); NULL for undefined
FindError(items) ==
    LET errs == {q \in 1..Len(items) : isError(items[q].v)}
    IN IF errs = {} THEN NULL
       ELSE items[CHOOSE q \in errs : \A o \in errs : q <= o].v

\* variant: failFast is not looked at, the results are always collected
ParallelHandlerCollectAll(par, x) ==
    Promise(Collected(par.form, ParallelResults(par, x)))

\* the async handler a parallel stage gives to joint
ParallelHandler(par, x) ==
    LET results == ParallelResults(par, x)
        error == FindError(results)
    IN IF par.failFast /\ error # NULL
       THEN Promise(error)
       ELSE Promise(Collected(par.form, results))

RECURSIVE doStream(_, _, _, _)

\* variant: the sub-chain's Result is read from its head
BranchStreamOfHead(pipe, x, sync) ==
    CHOOSE b \in { [pipe |-> d.nodes, ret |-> getStreamResultOfStart(d.nodes, Len(pipe))] :
                      d \in {doStream(pipe, pipe[Len(pipe)].start, x, sync)} } : TRUE

\* pipe.stream(x) (sync = TRUE) / pipe.streamAsync(x) of the sub-chain given to
\* branch / branchAsync: the sub-chain's objects afterwards and the value returned
BranchStream(pipe, x, sync) ==
    CHOOSE b \in { [pipe |-> d.nodes, ret |-> getStreamResult(d.nodes, Len(pipe))] :
                      d \in {doStream(pipe, pipe[Len(pipe)].start, x, sync)} } : TRUE

\* this.handler(input): the value returned (ret) and what the handler's closure
\* holds afterwards (env)
CallHandler(node, x) ==
    CASE node.handler \in {"branch", "branchAsync"} ->
            CHOOSE o \in { [ret |-> IF node.handler = "branch" THEN b.ret ELSE Promise(b.ret),
                            env |-> [node.env EXCEPT !.pipe = b.pipe]] :
                              b \in {BranchStream(node.env.pipe, x, node.handler = "branch")} } : TRUE
      [] node.handler = "window" ->
            [ret |-> IF node.env.errorStore # NULL THEN node.env.errorStore ELSE x,
             env |-> node.env]
      [] node.handler = "parallel" -> [ret |-> ParallelHandler(node.par, x), env |-> node.env]
      [] OTHER -> [ret |-> ApplyHandler(node.handler, x), env |-> node.env]

\* the value this.handler(input) returns
InvokeHandler(node, x) == CallHandler(node, x).ret

\* this.recoverHandler(error, parentInput)
InvokeRecover(node, error, origin) ==
    IF node.recoverHandler = "window" THEN EmptyObject
    ELSE ApplyRecover(node.recoverHandler, error, origin)

\* what the closure holds after this.recoverHandler(error, parentInput)
EnvAfterRecover(node, error) ==
    IF node.recoverHandler = "window" THEN [node.env EXCEPT !.errorStore = error]
    ELSE node.env

\* the call of the sub-chain made by the handler of a branch stage
BranchCalls(i, node, x) ==
    IF node.handler \in {"branch", "branchAsync"}
    THEN <<[node |-> i, fn |-> "sub", arg |-> x, origin |-> NULL, key |-> "pipe"]>>
    ELSE <<>>

\* the call log of a parallel stage's handler: every handler / sub-chain is
\* called, in the order of the array or of the keys
SubCall(i, e, x) == [node |-> i, fn |-> "sub", arg |-> x, origin |-> NULL, key |-> e.key]

\* variant: the handlers after the first one that returns an error are not called
SubCallsUntilError(i, par, x) ==
    LET n == Len(par.entries)
        errs == {q \in 1..n : isError(EntryResult(par.entries[q], x))}
        m == IF par.failFast /\ errs # {} THEN CHOOSE q \in errs : \A o \in errs : q <= o ELSE n
    IN [q \in 1..m |-> SubCall(i, par.entries[q], x)]

SubCalls(i, par, x) ==
    [q \in 1..Len(par.entries) |-> SubCall(i, par.entries[q], x)]

\* the results arrive while the driver awaits the stage's handler
Arrival(i, e, x) ==
    [node |-> i, fn |-> "arrival", arg |-> EntryResult(e, x), origin |-> NULL, key |-> e.key]

Arrivals(i, par, x) ==
    LET order == CompletionOrder(par.entries)
    IN [q \in 1..Len(par.entries) |-> Arrival(i, par.entries[order[q]], x)]

\* unitStream (sync = TRUE) and unitStreamAsync (sync = FALSE) of node i.
\* The result is the new objects, the node to drive next (0 for null) and the
\* handler / recoverHandler calls made.
UnitStream(ns, i, sync) ==
    LET reset == [ns EXCEPT ![i].result = EmptyResult]
        me == reset[i]
        parentResult == IF me.parent = 0 THEN EmptyResult ELSE reset[me.parent].result
        Stop(node, res, calls) ==
            [nodes |-> [reset EXCEPT ![i] = [node EXCEPT !.result = res]],
             next |-> 0, calls |-> calls]
        \* the part before the handler: the call has ended with res, or input is set
        Ended(node, res, calls) ==
            [ended |-> TRUE, node |-> node, input |-> NULL, res |-> res, calls |-> calls]
        Ready(node, input, calls) ==
            [ended |-> FALSE, node |-> node, input |-> input, res |-> EmptyResult,
             calls |-> calls]
        before ==
            IF me.parent = 0
            THEN Ready(me, me.entryInput, <<>>)
            ELSE CASE parentResult.kind = "success" -> Ready(me, parentResult.value, <<>>)
                   [] parentResult.kind = "error" ->
                         LET raw == InvokeRecover(me, parentResult.value, parentResult.origin)
                             after == [me EXCEPT !.env = EnvAfterRecover(me, parentResult.value)]
                             calls == <<RecoverCall(i, parentResult.value, parentResult.origin)>>
                         IN IF sync /\ isThenable(raw)
                            THEN Ended(after, thenableError(me.stage), calls)
                            ELSE IF isError(Await(raw))
                                 THEN Ended(after, makePipeError(Await(raw), NULL, me.stage), calls)
                                 ELSE Ready(after, Await(raw), calls)
                   [] OTHER -> Ended(me, inputError(me.stage), <<>>)
        \* h is what this.handler(input) gave
        RunHandler(node, input, calls, h) ==
            LET after == [node EXCEPT !.env = h.env]
                calls2 == Append(calls, HandlerCall(i, input)) \o SubCalls(i, me.par, input)
                          \o (IF sync THEN <<>> ELSE Arrivals(i, me.par, input))
                          \o BranchCalls(i, node, input)
            IN IF sync /\ isThenable(h.ret)
               THEN Stop(after, thenableError(me.stage), calls2)
               ELSE [nodes |-> [reset EXCEPT ![i] = setResult(after, Await(h.ret), input)],
                     next |-> me.next, calls |-> calls2]
    IN CHOOSE u \in
          { IF b.ended THEN Stop(b.node, b.res, b.calls)
            ELSE IF b.input = NULL THEN Stop(b.node, inputError(me.stage), b.calls)
            ELSE CHOOSE r \in { RunHandler(b.node, b.input, b.calls, h) :
                                  h \in {CallHandler(b.node, b.input)} } : TRUE
            : b \in {before} } : TRUE

\* the while loop of doStream / doStreamAsync from node cur on
RECURSIVE Drive(_, _, _, _)
Drive(ns, cur, calls, sync) ==
    IF cur = 0
    THEN [nodes |-> ns, calls |-> calls]
    ELSE \* current = current.unitStream(): u is the outcome of that one call
         CHOOSE d \in { Drive(u.nodes, u.next, calls \o u.calls, sync) :
                           u \in {UnitStream(ns, cur, sync)} } : TRUE

\* variant: every outcome slot is emptied before the drive starts
doStreamResetAll(ns, start, input, sync) ==
    Drive([i \in 1..Len(ns) |->
              IF i = start THEN [ns[i] EXCEPT !.entryInput = input, !.result = EmptyResult]
              ELSE [ns[i] EXCEPT !.result = EmptyResult]],
          start, <<>>, sync)

doStream(ns, start, input, sync) ==
    Drive([ns EXCEPT ![start].entryInput = input], start, <<>>, sync)

-----------------------------------------------------------------------------
(* Layers: makeLayer / makeAsyncLayer *)

\* the callbacks a layer is made of; t is the threshold its exit judge uses
Layer(entry, exit, ej, xj, t) ==
    [entry |-> entry, exit |-> exit, ej |-> ej, xj |-> xj, t |-> t]

MaxThreshold == 3

LayerKinds ==
    { Layer("inc", "id", "none", "none", 0),
      Layer("chk", "id", "none", "none", 0),
      Layer("id", "add", "none", "none", 0),
      Layer("inc", "id", "skipV", "none", 0),
      Layer("inc", "id", "skipE", "none", 0),
      Layer("id", "id", "none", "ovr", 0),
      Layer("aid", "id", "none", "none", 0),
      Layer("id", "aid", "none", "none", 0),
      Layer("id", "id", "acont", "none", 0),
      Layer("id", "id", "none", "acont", 0) }
    \cup { Layer("cnt", "id", "none", "retryLt", t) : t \in 1..MaxThreshold }

LayerInputs == {1, 2}

\* the value an exit judge hands back with retry
RetryValue == Val(11)
SkipValue == Val(77)

\* entry(input, context): the hook's result and the context it leaves
ApplyEntry(e, x, c) ==
    CASE e = "id" -> [out |-> x, ctx |-> c]
      [] e = "inc" -> [out |-> Val(x.n + 1), ctx |-> c]
      [] e = "chk" -> [out |-> IF x.n % 2 = 1 THEN Err("entry") ELSE x, ctx |-> c]
      [] e = "cnt" -> [out |-> Val(x.n + c + 1), ctx |-> c + 1]
      [] e = "aid" -> [out |-> Promise(x), ctx |-> c]

\* exit(output, context)
ApplyExit(e, o, c) ==
    CASE e = "id" -> o
      [] e = "add" -> IF o.tag = "val" THEN Val(o.n + 100) ELSE o
      [] e = "aid" -> Promise(o)

entryJudgeResultContinue == [kind |-> "continue", value |-> NULL, aw |-> FALSE]
exitJudgeResultContinue == [kind |-> "continue", value |-> NULL, aw |-> FALSE]

\* conditions.onEntryJudge(input, context) of the layer's maker
ApplyEntryJudge(j, x, c) ==
    CASE j = "skipV" -> [kind |-> "skip", value |-> SkipValue, aw |-> FALSE]
      [] j = "skipE" -> [kind |-> "skip", value |-> Err("skip"), aw |-> FALSE]
      [] j = "acont" -> [kind |-> "continue", value |-> NULL, aw |-> TRUE]

\* conditions.onExitJudge(output, input, context) of the layer's maker
ApplyExitJudge(j, o, x, c, t) ==
    CASE j = "retryLt" -> IF c < t
                          THEN [kind |-> "retry", value |-> RetryValue, aw |-> FALSE]
                          ELSE exitJudgeResultContinue
      [] j = "ovr" -> [kind |-> "override", value |-> Err("override"), aw |-> FALSE]
      [] j = "acont" -> [kind |-> "continue", value |-> NULL, aw |-> TRUE]

\* variant: the wrapper does not keep the input
LayerEntryNoRef(l, ref, x, c) ==
    [ref |-> ref, res |-> ApplyEntry(l.entry, x, c)]

\* variant: the wrapper clears the reference instead of setting it
LayerEntryClearsRef(l, ref, x, c) ==
    [ref |-> NULL, res |-> ApplyEntry(l.entry, x, c)]

\* the entry wrapper of makeLayer: ref.current = input; entry(ref.current, context)
LayerEntry(l, ref, x, c) ==
    [ref |-> x, res |-> ApplyEntry(l.entry, x, c)]

\* the exit wrapper of makeLayer
LayerExit(l, o, c) == ApplyExit(l.exit, o, c)

\* the onEntryJudge wrapper of makeLayer
LayerOnEntryJudge(l, x, c) ==
    IF l.ej # "none" THEN ApplyEntryJudge(l.ej, x, c) ELSE entryJudgeResultContinue

\* the onExitJudge wrapper of makeLayer
LayerOnExitJudge(l, ref, o, c) ==
    IF ref = NULL
    THEN [kind |-> "override", value |-> Err("Layer exit call only"), aw |-> FALSE]
    ELSE IF l.xj # "none"
         THEN ApplyExitJudge(l.xj, o, ref, c, l.t)
         ELSE exitJudgeResultContinue

\* the cleanup of makeLayer: ref.current = null
LayerCleanup(ref) == NULL

\* layerThenableError(tag); n carries the position the tag names
layerThenableError(phase, pos) ==
    [tag |-> "err", n |-> pos, aw |-> FALSE,
     msg |-> CASE phase = "entry" -> "[layer(n):entry]Cannot use thenable function. Please use stackAsyncLayer()"
               [] phase = "onEntryJudge" -> "[[layer:n]:onEntryJudge]Cannot use thenable function. Please use stackAsyncLayer()"
               [] phase = "exit" -> "[layer(n):exit]Cannot use thenable function. Please use stackAsyncLayer()"
               [] phase = "onExitJudge" -> "[layer(n):onExitJudge]Cannot use thenable function. Please use stackAsyncLayer()"]

\* the operation the stack wraps
WrappedHandler(x) == Val(x.n * 10)

-----------------------------------------------------------------------------
(* stackLayer / stackAsyncLayer: the layered operation, one step per loop turn *)

NoLocals == [layeredInput |-> NULL, output |-> NULL, retry |-> FALSE]

\* one record of the trace: function fn of layer (0: the wrapped operation) was
\* called on arg during pass and gave out; for a judge, kind is its verdict and
\* out the value or error that comes with it; orig is the original input an
\* exit judge was given
Event(layer, fn, arg, orig, out, kind, pass) ==
    [layer |-> layer, fn |-> fn, arg |-> arg, orig |-> orig, out |-> out,
     kind |-> kind, pass |-> pass]

\* what a judge returned, as the trace keeps it: the value or error of the
\* verdict, pending when the judge is an async function
JudgeOut(judgeResult) == [judgeResult.value EXCEPT !.aw = judgeResult.aw]

\* the verdict the stack read from it: none from a pending judge result, which
\* stackLayer rejects unread
JudgeKind(judgeResult) ==
    IF lmode = "sync" /\ judgeResult.aw THEN "pending" ELSE judgeResult.kind

NoObs ==
    [k |-> 0, input |-> NULL, pass |-> 0, trace |-> <<>>, done |-> FALSE, ret |-> NULL,
     entry0 |-> <<>>, exit0 |-> <<>>]

\* variant: an entry hook's error is not looked at
EntryFailedNever(entryResult) == FALSE

\* entryResult instanceof Error: the entry hook failed
EntryFailed(entryResult) == isError(entryResult)

\* variant: the wrapped operation runs whatever output.value holds
CallsHandlerAlways(output) == TRUE

\* output.value === null: the wrapped operation still has to run
CallsHandler(output) == output = NULL

\* variant: output.value is not cleared when the do-loop starts over
RetryLocalsKeepOutput(cur, judgeResult) ==
    [cur EXCEPT !.layeredInput = judgeResult.value, !.retry = FALSE]

\* the locals after an exit judge said retry and the do-loop started over:
\* layeredInput = judgeResult.value; retry = true; ... output.value = null; retry = false
RetryLocals(cur, judgeResult) ==
    [layeredInput |-> judgeResult.value, output |-> NULL, retry |-> FALSE]

\* return v from the layered operation
LReturnWith(v, events) ==
    /\ lpc' = "idle"
    /\ lcur' = NoLocals
    /\ lobs' = [lobs EXCEPT !.trace = lobs.trace \o events, !.done = TRUE, !.ret = v]

\* the layered operation is called with input x: the locals and the do-loop's first lines
LInvoke(x) ==
    /\ lpc = "idle"
    /\ Len(lstack) > 0
    /\ lobs.k < MaxCalls
    /\ lpc' = "entering"
    /\ lcur' = [layeredInput |-> Val(x), output |-> NULL, retry |-> FALSE]
    /\ lobs' = [k |-> lobs.k + 1, input |-> Val(x), pass |-> 1, trace |-> <<>>,
                done |-> FALSE, ret |-> NULL, entry0 |-> entryLayers, exit0 |-> exitLayers]
    /\ UNCHANGED <<lstack, lmode, entryLayers, exitLayers, lref, lctx, linv>>
    /\ UNCHANGED pipeVars

\* one turn of the loop over entryLayers
LEntry ==
    /\ lpc = "entering"
    /\ Len(entryLayers) > 0
    /\ LET cl == Head(entryLayers)
           l == lstack[cl]
           pos == Len(exitLayers) + 1
           e == LayerEntry(l, lref[cl], lcur.layeredInput, lctx[cl])
           raw == e.res.out
           entryResult == Await(raw)
           evE == Event(cl, "entry", lcur.layeredInput, NULL, raw, "", lobs.pass)
           judgeResult == LayerOnEntryJudge(l, entryResult, e.res.ctx)
           evJ == Event(cl, "entryJudge", entryResult, NULL, JudgeOut(judgeResult),
                        JudgeKind(judgeResult), lobs.pass)
       IN /\ entryLayers' = Tail(entryLayers)
          /\ exitLayers' = Append(exitLayers, cl)
          /\ lref' = [lref EXCEPT ![cl] = e.ref]
          /\ lctx' = [lctx EXCEPT ![cl] = e.res.ctx]
          /\ IF lmode = "sync" /\ isThenable(raw)
             THEN LReturnWith(layerThenableError("entry", pos), <<evE>>)
             ELSE IF EntryFailed(entryResult)
             THEN LReturnWith(entryResult, <<evE>>)
             ELSE IF lmode = "sync" /\ judgeResult.aw
             THEN LReturnWith(layerThenableError("onEntryJudge", pos), <<evE, evJ>>)
             ELSE IF judgeResult.kind = "skip"
             THEN /\ lcur' = [lcur EXCEPT !.output = judgeResult.value]
                  /\ lpc' = "handling"
                  /\ lobs' = [lobs EXCEPT !.trace = lobs.trace \o <<evE, evJ>>]
             ELSE /\ lcur' = [lcur EXCEPT !.layeredInput = entryResult]
                  /\ lpc' = "entering"
                  /\ lobs' = [lobs EXCEPT !.trace = lobs.trace \o <<evE, evJ>>]
    /\ UNCHANGED <<lstack, lmode, linv>>
    /\ UNCHANGED pipeVars

\* after the entry loop: output.value === null ? handler(layeredInput) : output.value
LHandle ==
    /\ \/ lpc = "entering" /\ Len(entryLayers) = 0
       \/ lpc = "handling"
    /\ IF CallsHandler(lcur.output)
       THEN /\ lcur' = [lcur EXCEPT !.output = WrappedHandler(lcur.layeredInput)]
            /\ lobs' = [lobs EXCEPT !.trace = Append(lobs.trace,
                           Event(0, "handler", lcur.layeredInput, NULL,
                                 WrappedHandler(lcur.layeredInput), "", lobs.pass))]
       ELSE UNCHANGED <<lcur, lobs>>
    /\ lpc' = "exiting"
    /\ UNCHANGED <<lstack, lmode, entryLayers, exitLayers, lref, lctx, linv>>
    /\ UNCHANGED pipeVars

\* variant: the popped layer is not put back on the pending list
PushPendingDropped(pending, cl) == pending

\* entryLayers.push(currentlayer) of the exit loop
PushPending(pending, cl) == Append(pending, cl)

\* one turn of the loop over exitLayers
LExit ==
    /\ lpc = "exiting"
    /\ Len(exitLayers) > 0
    /\ LET cl == exitLayers[Len(exitLayers)]
           l == lstack[cl]
           pos == Len(exitLayers)
           raw == LayerExit(l, lcur.output, lctx[cl])
           exitResult == Await(raw)
           evX == Event(cl, "exit", lcur.output, NULL, raw, "", lobs.pass)
           judgeResult == LayerOnExitJudge(l, lref[cl], exitResult, lctx[cl])
           evJ == Event(cl, "exitJudge", exitResult, lref[cl], JudgeOut(judgeResult),
                        JudgeKind(judgeResult), lobs.pass)
       IN /\ exitLayers' = SubSeq(exitLayers, 1, Len(exitLayers) - 1)
          /\ entryLayers' = PushPending(entryLayers, cl)
          /\ UNCHANGED lctx
          /\ IF lmode = "sync" /\ isThenable(raw)
             THEN /\ LReturnWith(layerThenableError("exit", pos), <<evX>>)
                  /\ UNCHANGED lref
             ELSE IF lmode = "sync" /\ judgeResult.aw
             THEN /\ LReturnWith(layerThenableError("onExitJudge", pos), <<evX, evJ>>)
                  /\ UNCHANGED lref
             ELSE IF judgeResult.kind = "retry"
             THEN \* break; while (retry): output.value = null; retry = false
                  /\ lcur' = RetryLocals(lcur, judgeResult)
                  /\ lpc' = "entering"
                  /\ lobs' = [lobs EXCEPT !.trace = lobs.trace \o <<evX, evJ>>,
                                          !.pass = lobs.pass + 1]
                  /\ UNCHANGED lref
             ELSE IF judgeResult.kind = "override"
             THEN /\ lcur' = [lcur EXCEPT !.output = judgeResult.value]
                  /\ lpc' = "exiting"
                  /\ lobs' = [lobs EXCEPT !.trace = lobs.trace \o <<evX, evJ>>]
                  /\ UNCHANGED lref
             ELSE /\ lref' = [lref EXCEPT ![cl] = LayerCleanup(lref[cl])]
                  /\ lcur' = [lcur EXCEPT !.output = exitResult]
                  /\ lpc' = "exiting"
                  /\ lobs' = [lobs EXCEPT !.trace = lobs.trace \o <<evX, evJ>>]
    /\ UNCHANGED <<lstack, lmode, linv>>
    /\ UNCHANGED pipeVars

\* the exit loop is over and no retry is pending: return output.value
LReturn ==
    /\ lpc = "exiting"
    /\ Len(exitLayers) = 0
    /\ LReturnWith(lcur.output, <<>>)
    /\ UNCHANGED <<lstack, lmode, entryLayers, exitLayers, lref, lctx, linv>>
    /\ UNCHANGED pipeVars

\* stackLayer(layers) / stackAsyncLayer(layers) has been called on fresh layers
\* (and no chain is built)
LayerInit ==
    /\ twin = <<>>
    /\ flight = <<>>
    /\ nodes = <<>>
    /\ last = [called |-> FALSE, fresh |-> FALSE, mode |-> "", target |-> 0,
               input |-> NULL, ret |-> NULL, calls |-> <<>>]
    /\ \E n \in 1..MaxLayers : lstack \in [1..n -> LayerKinds]
    /\ lmode \in {"sync", "async"}
    /\ entryLayers = [i \in 1..Len(lstack) |-> i]
    /\ exitLayers = <<>>
    /\ lref = [i \in 1..Len(lstack) |-> NULL]
    /\ lctx = [i \in 1..Len(lstack) |-> 0]
    /\ lpc = "idle"
    /\ lcur = NoLocals
    /\ lobs = NoObs
    /\ linv = <<>>

LayerNext ==
    \/ \E x \in LayerInputs : LInvoke(x)
    \/ LEntry
    \/ LHandle
    \/ LExit
    \/ LReturn

-----------------------------------------------------------------------------
(* Overlapping invocations of one stackAsyncLayer operation. Every await of
   the async function is a point where another invocation can run; an action
   is the code from one await to the next. An invocation keeps its own locals
   (layeredInput, output.value, currentlayer, the awaited result) and shares
   entryLayers, exitLayers and every layer's ref and context with the others. *)

\* the inputs of the calls, in call order
OverlapInputs == <<1, 2>>

\* the layers of the stacks that are called again before they returned
OverlapKinds ==
    { Layer("inc", "id", "none", "none", 0),
      Layer("chk", "id", "none", "none", 0),
      Layer("id", "id", "none", "ovr", 0),
      Layer("inc", "id", "skipV", "none", 0) }

\* the locals of a call of the layered operation that has not reached an await yet
NewInvocation(x) ==
    [pc |-> "start", input |-> Val(x), layeredInput |-> Val(x), output |-> NULL,
     cl |-> 0, pending |-> NULL, verdict |-> exitJudgeResultContinue,
     trace |-> <<>>, ret |-> NULL]

\* one record of an invocation's trace, as Event without the pass
OEvent(layer, fn, arg, orig, out, kind) ==
    [layer |-> layer, fn |-> fn, arg |-> arg, orig |-> orig, out |-> out, kind |-> kind]

\* invocation a, with locals inv, is at the head of the exit loop; ref is
\* ref.current of the layers as this piece of code has left it
OUnwind(base, a, inv, ref) ==
    /\ lref' = ref
    /\ UNCHANGED lctx
    /\ IF Len(exitLayers) > 0
       THEN LET cl == exitLayers[Len(exitLayers)]
                raw == LayerExit(lstack[cl], inv.output, lctx[cl])
            IN /\ exitLayers' = SubSeq(exitLayers, 1, Len(exitLayers) - 1)
               /\ entryLayers' = Append(entryLayers, cl)
               /\ linv' = [base EXCEPT ![a] =
                             [inv EXCEPT !.pc = "exit", !.cl = cl, !.pending = Await(raw),
                                         !.trace = Append(@, OEvent(cl, "exit", inv.output,
                                                                     NULL, raw, ""))]]
       ELSE /\ UNCHANGED <<entryLayers, exitLayers>>
            /\ linv' = [base EXCEPT ![a] = [inv EXCEPT !.pc = "done", !.ret = inv.output]]

\* invocation a, with locals inv, is at the head of the entry loop, output.value
\* being null
OEnter(base, a, inv, ref) ==
    IF Len(entryLayers) > 0
    THEN LET cl == Head(entryLayers)
             e == LayerEntry(lstack[cl], ref[cl], inv.layeredInput, lctx[cl])
         IN /\ entryLayers' = Tail(entryLayers)
            /\ exitLayers' = Append(exitLayers, cl)
            /\ lref' = [ref EXCEPT ![cl] = e.ref]
            /\ lctx' = [lctx EXCEPT ![cl] = e.res.ctx]
            /\ linv' = [base EXCEPT ![a] =
                          [inv EXCEPT !.pc = "entry", !.cl = cl,
                                      !.pending = Await(e.res.out),
                                      !.trace = Append(@, OEvent(cl, "entry", inv.layeredInput,
                                                                  NULL, e.res.out, ""))]]
    ELSE /\ UNCHANGED <<entryLayers, exitLayers, lctx>>
         /\ lref' = ref
         /\ linv' = [base EXCEPT ![a] =
                       [inv EXCEPT !.pc = "handler", !.cl = 0,
                                   !.pending = Await(WrappedHandler(inv.layeredInput)),
                                   !.trace = Append(@, OEvent(0, "handler", inv.layeredInput,
                                                               NULL,
                                                               WrappedHandler(inv.layeredInput),
                                                               ""))]]

OFrame ==
    /\ UNCHANGED <<lstack, lmode, lpc, lcur, lobs>>
    /\ UNCHANGED pipeVars

\* invocation a is suspended at the await pc names and has made fewer than
\* MaxOverlapCalls calls
Suspended(a, pc) ==
    /\ a \in 1..Len(linv)
    /\ linv[a].pc = pc
    /\ Len(linv[a].trace) < MaxOverlapCalls

\* the layered operation is called: it runs to its first await
OInvoke ==
    /\ Len(lstack) > 0
    /\ Len(linv) < Len(OverlapInputs)
    /\ LET a == Len(linv) + 1
           inv == NewInvocation(OverlapInputs[a])
       IN OEnter(Append(linv, inv), a, inv, lref)
    /\ OFrame

\* await Promise.resolve(currentlayer.entry(layeredInput)) resumes
OEntryResume(a) ==
    /\ Suspended(a, "entry")
    /\ LET inv == linv[a]
           entryResult == inv.pending
           judgeResult == LayerOnEntryJudge(lstack[inv.cl], entryResult, lctx[inv.cl])
       IN IF EntryFailed(entryResult)
          THEN linv' = [linv EXCEPT ![a] = [inv EXCEPT !.pc = "done", !.ret = entryResult]]
          ELSE linv' = [linv EXCEPT ![a] =
                          [inv EXCEPT !.pc = "entryJudge", !.verdict = judgeResult,
                                      !.trace = Append(@, OEvent(inv.cl, "entryJudge",
                                                                  entryResult, NULL,
                                                                  judgeResult.value,
                                                                  judgeResult.kind))]]
    /\ UNCHANGED <<entryLayers, exitLayers, lref, lctx>>
    /\ OFrame

\* await Promise.resolve(currentlayer.conditions.onEntryJudge(entryResult)) resumes
OEntryJudgeResume(a) ==
    /\ Suspended(a, "entryJudge")
    /\ LET inv == linv[a]
       IN IF inv.verdict.kind = "skip"
          THEN OUnwind(linv, a, [inv EXCEPT !.output = inv.verdict.value], lref)
          ELSE OEnter(linv, a, [inv EXCEPT !.layeredInput = inv.pending], lref)
    /\ OFrame

\* await Promise.resolve(handler(layeredInput)) resumes
OHandlerResume(a) ==
    /\ Suspended(a, "handler")
    /\ OUnwind(linv, a, [linv[a] EXCEPT !.output = linv[a].pending], lref)
    /\ OFrame

\* await Promise.resolve(currentlayer.exit(output.value)) resumes
OExitResume(a) ==
    /\ Suspended(a, "exit")
    /\ LET inv == linv[a]
           exitResult == inv.pending
           judgeResult == LayerOnExitJudge(lstack[inv.cl], lref[inv.cl], exitResult,
                                           lctx[inv.cl])
       IN linv' = [linv EXCEPT ![a] =
                     [inv EXCEPT !.pc = "exitJudge", !.verdict = judgeResult,
                                 !.trace = Append(@, OEvent(inv.cl, "exitJudge", exitResult,
                                                             lref[inv.cl], judgeResult.value,
                                                             judgeResult.kind))]]
    /\ UNCHANGED <<entryLayers, exitLayers, lref, lctx>>
    /\ OFrame

\* await Promise.resolve(currentlayer.conditions.onExitJudge(exitResult)) resumes
OExitJudgeResume(a) ==
    /\ Suspended(a, "exitJudge")
    /\ LET inv == linv[a]
       IN IF inv.verdict.kind = "retry"
          THEN OEnter(linv, a, [inv EXCEPT !.layeredInput = inv.verdict.value,
                                           !.output = NULL], lref)
          ELSE IF inv.verdict.kind = "override"
          THEN OUnwind(linv, a, [inv EXCEPT !.output = inv.verdict.value], lref)
          ELSE OUnwind(linv, a, [inv EXCEPT !.output = inv.pending],
                       [lref EXCEPT ![inv.cl] = LayerCleanup(lref[inv.cl])])
    /\ OFrame

\* stackAsyncLayer(layers) has been called on fresh layers
OverlapInit ==
    /\ LayerInit
    /\ lmode = "async"
    /\ \A i \in 1..Len(lstack) : lstack[i] \in OverlapKinds

OverlapNext ==
    \/ OInvoke
    \/ \E a \in 1..Len(OverlapInputs) : OEntryResume(a)
    \/ \E a \in 1..Len(OverlapInputs) : OEntryJudgeResume(a)
    \/ \E a \in 1..Len(OverlapInputs) : OHandlerResume(a)
    \/ \E a \in 1..Len(OverlapInputs) : OExitResume(a)
    \/ \E a \in 1..Len(OverlapInputs) : OExitJudgeResume(a)

-----------------------------------------------------------------------------
(* Building and invoking a chain *)

NoCall ==
    [called |-> FALSE, fresh |-> FALSE, mode |-> "", target |-> 0, input |-> NULL,
     ret |-> NULL, calls |-> <<>>]

\* no node of the chain has been driven yet
IsFresh(ns) == \A i \in 1..Len(ns) : ns[i].result = EmptyResult /\ ns[i].entryInput = NULL

\* Pipe.from(handler)
From(h) ==
    /\ Len(nodes) = 0
    /\ nodes' = <<NewPipe(0, 1, h, "pass")>>
    /\ last' = NoCall
    /\ UNCHANGED <<twin, flight>>
    /\ UNCHANGED layerVars

\* p.joint(handler, recoverHandler): the constructor links the new node to p
Joint(p, h, r) ==
    /\ p \in 1..Len(nodes)
    /\ Len(nodes) < MaxStages
    /\ nodes' = Append([nodes EXCEPT ![p].next = Len(nodes) + 1],
                       NewPipe(p, nodes[p].start, h, r))
    /\ last' = NoCall
    /\ UNCHANGED <<twin, flight>>
    /\ UNCHANGED layerVars

\* p.repair(recoverHandler) = p.joint(x => x, recoverHandler)
Repair(p, r) == Joint(p, "id", r)

\* p.label(stage): this.stage = stage; return this
Label(p, stage) ==
    /\ p \in 1..Len(nodes)
    /\ nodes' = [nodes EXCEPT ![p].stage = stage]
    /\ last' = NoCall
    /\ UNCHANGED <<twin, flight>>
    /\ UNCHANGED layerVars

\* t.stream(input) (sync = TRUE) and, run without overlap, t.streamAsync(input)
StreamCall(t, x, sync) ==
    /\ t \in 1..Len(nodes)
    /\ LET d == doStream(nodes, nodes[t].start, Val(x), sync)
       IN /\ nodes' = d.nodes
          /\ last' = [called |-> TRUE, fresh |-> IsFresh(nodes),
                      mode |-> IF sync THEN "sync" ELSE "async",
                      target |-> t, input |-> Val(x),
                      ret |-> getStreamResult(d.nodes, t), calls |-> d.calls]
    /\ UNCHANGED <<twin, flight>>
    /\ UNCHANGED layerVars

Stream(t, x) == StreamCall(t, x, TRUE)

StreamAsync(t, x) == StreamCall(t, x, FALSE)

\* the handlers and sub-chains given to the parallel combinators
ParHandlers == {"inc", "fail", "chk"}
Latencies == {0, 1}
ArrayKeys == <<"0", "1">>
ObjectKeys == {<<"a", "b">>, <<"b", "a">>}

\* what a combinator is given: for every position a handler and its lateness
ParArgs == [1..Len(ArrayKeys) -> [h : ParHandlers, lat : Latencies]]

ParEntries(keys, args, sub) ==
    [q \in 1..Len(keys) |-> [key |-> keys[q], h |-> args[q].h, lat |-> args[q].lat, sub |-> sub]]

\* this.joint(async input => ..., recoverHandler) of the four parallel combinators
ParJoint(p, par, r) ==
    /\ p \in 1..Len(nodes)
    /\ Len(nodes) < MaxStages
    /\ nodes' = Append([nodes EXCEPT ![p].next = Len(nodes) + 1],
                       [NewPipe(p, nodes[p].start, "parallel", r) EXCEPT !.par = par])
    /\ last' = NoCall
    /\ UNCHANGED <<twin, flight>>
    /\ UNCHANGED layerVars

\* p.parallelJoint(handlers, failFast, recoverHandler)
ParallelJoint(p, args, failFast, r) ==
    ParJoint(p, [form |-> "array", failFast |-> failFast,
                 entries |-> ParEntries(ArrayKeys, args, FALSE)], r)

\* p.keyedParallelJoint(handlers, failFast, recoverHandler)
KeyedParallelJoint(p, keys, args, failFast, r) ==
    ParJoint(p, [form |-> "keyed", failFast |-> failFast,
                 entries |-> ParEntries(keys, args, FALSE)], r)

\* p.parallelBranch(pipes, failFast, recoverHandler)
ParallelBranch(p, args, failFast, r) ==
    ParJoint(p, [form |-> "array", failFast |-> failFast,
                 entries |-> ParEntries(ArrayKeys, args, TRUE)], r)

\* p.keyedParallelBranch(pipes, failFast, recoverHandler)
KeyedParallelBranch(p, keys, args, failFast, r) ==
    ParJoint(p, [form |-> "keyed", failFast |-> failFast,
                 entries |-> ParEntries(keys, args, TRUE)], r)

LayerIdle ==
    /\ lstack = <<>>
    /\ lmode = "sync"
    /\ entryLayers = <<>>
    /\ exitLayers = <<>>
    /\ lref = <<>>
    /\ lctx = <<>>
    /\ lpc = "idle"
    /\ lcur = NoLocals
    /\ lobs = NoObs
    /\ linv = <<>>

PipeInit ==
    /\ nodes = <<>>
    /\ last = NoCall
    /\ twin = <<>>
    /\ flight = <<>>

Init == PipeInit /\ LayerIdle

Next ==
    \/ \E h \in HeadHandlers : From(h)
    \/ \E m \in JointMenu : Joint(Len(nodes), m.h, m.r)
    \/ \E r \in RepairMenu : Repair(Len(nodes), r)
    \/ \E x \in Inputs : Stream(Len(nodes), x)
    \/ \E x \in Inputs : StreamAsync(Len(nodes), x)

Spec == Init /\ [][Next]_vars

\* chains with one parallel stage
ParHeads == {"inc"}
ParJointMenu == { [h |-> "id", r |-> "pass"] }

CanGrow == Len(nodes) \in 1..(MaxParStages - 1)
NoParallelYet == \A i \in 1..Len(nodes) : nodes[i].par.form = "none"

ParNext ==
    \/ \E h \in ParHeads : From(h)
    \/ CanGrow /\ \E m \in ParJointMenu : Joint(Len(nodes), m.h, m.r)
    \/ CanGrow /\ Repair(Len(nodes), "parent")
    \/ CanGrow /\ NoParallelYet
       /\ \E args \in ParArgs, f \in BOOLEAN : ParallelJoint(Len(nodes), args, f, "pass")
    \/ CanGrow /\ NoParallelYet
       /\ \E keys \in ObjectKeys, args \in ParArgs, f \in BOOLEAN :
             KeyedParallelJoint(Len(nodes), keys, args, f, "pass")
    \/ CanGrow /\ NoParallelYet
       /\ \E args \in ParArgs, f \in BOOLEAN : ParallelBranch(Len(nodes), args, f, "pass")
    \/ CanGrow /\ NoParallelYet
       /\ \E keys \in ObjectKeys, args \in ParArgs, f \in BOOLEAN :
             KeyedParallelBranch(Len(nodes), keys, args, f, "pass")
    \/ \E x \in Inputs : Stream(Len(nodes), x)
    \/ \E x \in Inputs : StreamAsync(Len(nodes), x)

ParSpec == Init /\ [][ParNext]_vars

\* chains with labelled stages
LabelHeads == {"chk", "async"}
LabelJointMenu == { [h |-> "fail", r |-> "pass"] }
StageNames == {"test"}

LabelNext ==
    \/ \E h \in LabelHeads : From(h)
    \/ \E m \in LabelJointMenu : Joint(Len(nodes), m.h, m.r)
    \/ Repair(Len(nodes), "parent")
    \/ \E stage \in StageNames : Label(Len(nodes), stage)
    \/ \E x \in Inputs : Stream(Len(nodes), x)
    \/ \E x \in Inputs : StreamAsync(Len(nodes), x)

LabelSpec == Init /\ [][LabelNext]_vars

\* Pipe.from(hs[1]).joint(hs[2])...: the objects of a chain of plain stages
ChainOf(hs) ==
    [k \in 1..Len(hs) |->
        [NewPipe(k - 1, 1, hs[k], "pass") EXCEPT !.next = IF k < Len(hs) THEN k + 1 ELSE 0]]

\* this.joint(input => pipe.stream(input), recoverHandler) and its async form
BranchJoint(p, h, pipe, r) ==
    /\ p \in 1..Len(nodes)
    /\ Len(nodes) < MaxBranchStages
    /\ nodes' = Append([nodes EXCEPT ![p].next = Len(nodes) + 1],
                       [NewPipe(p, nodes[p].start, h, r) EXCEPT !.env.pipe = pipe])
    /\ last' = NoCall
    /\ UNCHANGED <<twin, flight>>
    /\ UNCHANGED layerVars

\* p.branch(pipe, recoverHandler)
Branch(p, pipe, r) == BranchJoint(p, "branch", pipe, r)

\* p.branchAsync(pipe, recoverHandler)
BranchAsync(p, pipe, r) == BranchJoint(p, "branchAsync", pipe, r)

\* chains with one branch stage
BranchHeads == {"chk", "inc"}
BranchPipes == { ChainOf(hs) : hs \in {<<"inc">>, <<"chk", "tpl">>, <<"inc", "async">>} }

BranchGrow == Len(nodes) \in 1..(MaxBranchStages - 1)
NoBranchYet == \A i \in 1..Len(nodes) : nodes[i].env.pipe = <<>>

BranchNext ==
    \/ \E h \in BranchHeads : From(h)
    \/ BranchGrow /\ Joint(Len(nodes), "inc", "pass")
    \/ BranchGrow /\ Repair(Len(nodes), "parent")
    \/ BranchGrow /\ NoBranchYet /\ \E pipe \in BranchPipes : Branch(Len(nodes), pipe, "pass")
    \/ BranchGrow /\ NoBranchYet
       /\ \E pipe \in BranchPipes : BranchAsync(Len(nodes), pipe, "pass")
    \/ \E x \in Inputs : Stream(Len(nodes), x)
    \/ \E x \in Inputs : StreamAsync(Len(nodes), x)

BranchSpec == Init /\ [][BranchNext]_vars

\* A chain with window stages is built together with its twin, the chain made
\* by the same calls without the window() calls; both are called with the
\* same inputs.

\* Pipe.from(handler), twice
PairFrom(h) ==
    /\ Len(nodes) = 0
    /\ nodes' = <<NewPipe(0, 1, h, "pass")>>
    /\ twin' = <<NewPipe(0, 1, h, "pass")>>
    /\ last' = NoCall
    /\ UNCHANGED flight
    /\ UNCHANGED layerVars

\* tail.joint(handler, recoverHandler) on both chains
PairJoint(h, r) ==
    /\ Len(nodes) \in 1..(MaxWindowStages - 1)
    /\ nodes' = Append([nodes EXCEPT ![Len(nodes)].next = Len(nodes) + 1],
                       NewPipe(Len(nodes), 1, h, r))
    /\ twin' = Append([twin EXCEPT ![Len(twin)].next = Len(twin) + 1],
                      NewPipe(Len(twin), 1, h, r))
    /\ last' = NoCall
    /\ UNCHANGED flight
    /\ UNCHANGED layerVars

\* p.window(): this.joint(x => errorStore ?? x, error => { errorStore = error; return {} })
Window(p) ==
    /\ p \in 1..Len(nodes)
    /\ Len(nodes) < MaxWindowStages
    /\ nodes' = Append([nodes EXCEPT ![p].next = Len(nodes) + 1],
                       NewPipe(p, nodes[p].start, "window", "window"))
    /\ last' = NoCall
    /\ UNCHANGED <<twin, flight>>
    /\ UNCHANGED layerVars

\* tail.stream(x) / tail.streamAsync(x) on the chain and then on its twin
PairStream(x, sync) ==
    /\ Len(nodes) > 0
    /\ LET d == doStream(nodes, 1, Val(x), sync)
       IN /\ nodes' = d.nodes
          /\ last' = [called |-> TRUE, fresh |-> IsFresh(nodes),
                      mode |-> IF sync THEN "sync" ELSE "async",
                      target |-> Len(nodes), input |-> Val(x),
                      ret |-> getStreamResult(d.nodes, Len(nodes)), calls |-> d.calls]
    /\ twin' = doStream(twin, 1, Val(x), sync).nodes
    /\ UNCHANGED flight
    /\ UNCHANGED layerVars

WindowHeads == {"chk"}
WindowJointMenu == { [h |-> "inc", r |-> "pass"], [h |-> "id", r |-> "parent"] }

\* the handlers of the menu are functions of numbers: no stage is added behind a
\* repair stage, which can hand on the {} a window stage stores as origin
NoRepairYet == \A i \in 1..Len(nodes) : nodes[i].recoverHandler # "parent"

WindowNext ==
    \/ \E h \in WindowHeads : PairFrom(h)
    \/ NoRepairYet /\ \E m \in WindowJointMenu : PairJoint(m.h, m.r)
    \/ NoRepairYet /\ Window(Len(nodes))
    \/ \E x \in Inputs : PairStream(x, TRUE)
    \/ \E x \in Inputs : PairStream(x, FALSE)

WindowSpec == Init /\ [][WindowNext]_vars

\* streamAsync step by step. A call runs until it reaches an await and is
\* resumed later; other calls of the same chain may run in between. Of a call
\* flight[a] holds
\*   pc       "handler" / "recover": in unitStreamAsync of node cur, at
\*            await this.handler(input) / await this.recoverHandler(...)
\*            "unit": in doStreamAsync, at await current.unitStreamAsync(),
\*            which has returned next
\*            "drive": in streamAsync, at await this.start.doStreamAsync(input)
\*            "done": returned ret
\*   arg      the local variable input of unitStreamAsync
\*   pending  the awaited value
\*   alone    what the call would have returned had it run to its end at once
\*   overlapped  another call was under way at some time during this call
NewFlight(t, x, ns) ==
    [target |-> t, input |-> x, pc |-> "start", cur |-> 0, next |-> 0, arg |-> NULL,
     pending |-> NULL, ret |-> NULL, overlapped |-> FALSE,
     alone |-> getStreamResult(doStream(ns, ns[t].start, x, FALSE).nodes, t)]

\* unitStreamAsync returns null with this.result = res
AsyncStop(ns, f, i, res) ==
    [nodes |-> [ns EXCEPT ![i].result = res],
     flight |-> [f EXCEPT !.pc = "unit", !.cur = i, !.next = 0]]

\* from the null check of input up to await this.handler(input)
AsyncCallHandler(ns, f, i, input) ==
    IF input = NULL
    THEN AsyncStop(ns, f, i, inputError(ns[i].stage))
    ELSE CHOOSE e \in
            { [nodes |-> [ns EXCEPT ![i].env = h.env],
               flight |-> [f EXCEPT !.pc = "handler", !.cur = i, !.arg = input,
                                    !.pending = h.ret]] :
                 h \in {CallHandler(ns[i], input)} } : TRUE

\* current.unitStreamAsync(), from its call up to its first await or its return
unitStreamAsyncEnter(ns, f, i) ==
    LET reset == [ns EXCEPT ![i].result = EmptyResult]
        me == reset[i]
        parentResult == IF me.parent = 0 THEN EmptyResult ELSE reset[me.parent].result
    IN IF me.parent = 0
       THEN AsyncCallHandler(reset, f, i, me.entryInput)
       ELSE CASE parentResult.kind = "success" ->
                    AsyncCallHandler(reset, f, i, parentResult.value)
              [] parentResult.kind = "error" ->
                    [nodes |-> [reset EXCEPT ![i].env = EnvAfterRecover(me, parentResult.value)],
                     flight |-> [f EXCEPT !.pc = "recover", !.cur = i,
                                          !.pending = InvokeRecover(me, parentResult.value,
                                                                    parentResult.origin)]]
              [] OTHER -> AsyncStop(reset, f, i, inputError(me.stage))

\* variant: the input is not stored in the head's entryInput
doStreamAsyncEnterNoInput(ns, f) ==
    unitStreamAsyncEnter(ns, f, ns[f.target].start)

\* this.start.doStreamAsync(input) up to the first await
doStreamAsyncEnter(ns, f) ==
    unitStreamAsyncEnter([ns EXCEPT ![ns[f.target].start].entryInput = f.input], f,
                         ns[f.target].start)

InFlight(a) == a \in 1..Len(flight) /\ flight[a].pc # "done"

\* t.streamAsync(x) is called
AsyncStart(t, x) ==
    /\ t \in 1..Len(nodes)
    /\ Len(flight) < MaxFlights
    /\ LET busy == \E a \in 1..Len(flight) : InFlight(a)
           e == doStreamAsyncEnter(nodes, NewFlight(t, Val(x), nodes))
       IN /\ nodes' = e.nodes
          /\ flight' = Append([a \in 1..Len(flight) |->
                                  IF InFlight(a) THEN [flight[a] EXCEPT !.overlapped = TRUE]
                                  ELSE flight[a]],
                              [e.flight EXCEPT !.overlapped = busy])
    /\ UNCHANGED <<last, twin>>
    /\ UNCHANGED layerVars

\* the awaited recoverHandler result arrives
AsyncRecoverResume(a) ==
    /\ InFlight(a) /\ flight[a].pc = "recover"
    /\ LET f == flight[a]
           recoverResult == Await(f.pending)
           e == IF isError(recoverResult)
                THEN AsyncStop(nodes, f, f.cur,
                               makePipeError(recoverResult, NULL, nodes[f.cur].stage))
                ELSE AsyncCallHandler(nodes, f, f.cur, recoverResult)
       IN /\ nodes' = e.nodes
          /\ flight' = [flight EXCEPT ![a] = e.flight]
    /\ UNCHANGED <<last, twin>>
    /\ UNCHANGED layerVars

\* the awaited handler result arrives: this.setResult(handlerResult, input)
AsyncHandlerResume(a) ==
    /\ InFlight(a) /\ flight[a].pc = "handler"
    /\ LET f == flight[a]
       IN /\ nodes' = [nodes EXCEPT ![f.cur] = setResult(nodes[f.cur], Await(f.pending), f.arg)]
          /\ flight' = [flight EXCEPT ![a].pc = "unit", ![a].next = nodes[f.cur].next]
    /\ UNCHANGED <<last, twin>>
    /\ UNCHANGED layerVars

\* variant: doStreamAsync does not await unitStreamAsync and goes on with the
\* successor while the handler's result is still awaited
AsyncUnitResumeEarly(a) ==
    /\ InFlight(a) /\ flight[a].pc \in {"unit", "handler"}
    /\ LET f == flight[a]
           nx == IF f.pc = "unit" THEN f.next ELSE nodes[f.cur].next
           e == IF nx = 0
                THEN [nodes |-> nodes, flight |-> [f EXCEPT !.pc = "drive"]]
                ELSE unitStreamAsyncEnter(nodes, f, nx)
       IN /\ nodes' = e.nodes
          /\ flight' = [flight EXCEPT ![a] = e.flight]
    /\ UNCHANGED <<last, twin>>
    /\ UNCHANGED layerVars

\* doStreamAsync goes on with the node unitStreamAsync returned
AsyncUnitResume(a) ==
    /\ InFlight(a) /\ flight[a].pc = "unit"
    /\ LET f == flight[a]
           e == IF f.next = 0
                THEN [nodes |-> nodes, flight |-> [f EXCEPT !.pc = "drive"]]
                ELSE unitStreamAsyncEnter(nodes, f, f.next)
       IN /\ nodes' = e.nodes
          /\ flight' = [flight EXCEPT ![a] = e.flight]
    /\ UNCHANGED <<last, twin>>
    /\ UNCHANGED layerVars

\* streamAsync returns this.getStreamResult()
AsyncReturn(a) ==
    /\ InFlight(a) /\ flight[a].pc = "drive"
    /\ flight' = [flight EXCEPT ![a].pc = "done",
                                ![a].ret = getStreamResult(nodes, flight[a].target)]
    /\ UNCHANGED <<nodes, last, twin>>
    /\ UNCHANGED layerVars

\* the chains that are called while a call is under way
RaceChains == { ChainOf(hs) : hs \in {<<"inc", "tpl">>, <<"chk", "inc">>, <<"chk", "inc", "tpl">>} }

RaceInit ==
    /\ nodes \in RaceChains
    /\ last = NoCall
    /\ twin = <<>>
    /\ flight = <<>>
    /\ LayerIdle

RaceNext ==
    \/ \E x \in Inputs : AsyncStart(Len(nodes), x)
    \/ \E a \in 1..MaxFlights : AsyncRecoverResume(a)
    \/ \E a \in 1..MaxFlights : AsyncHandlerResume(a)
    \/ \E a \in 1..MaxFlights : AsyncUnitResume(a)
    \/ \E a \in 1..MaxFlights : AsyncReturn(a)

RaceSpec == RaceInit /\ [][RaceNext]_vars

\* stream and streamAsync calls of one chain, streamAsync await by await
OrderNext ==
    \/ RaceNext
    \/ \E x \in Inputs : Stream(Len(nodes), x)

OrderSpec == RaceInit /\ [][OrderNext]_vars

\* chains in which a stage is added to any node, also to one that already has a
\* successor, and that are called on any of their nodes
ForkHeads == {"chk"}
ForkJointMenu == { [h |-> "inc", r |-> "pass"] }
ForkPipes == { ChainOf(<<"chk">>) }

ForkGrow == Len(nodes) \in 1..(MaxForkStages - 1)
NoLabelYet(p) == p \in 1..Len(nodes) /\ nodes[p].stage = "no name"

ForkNext ==
    \/ \E h \in ForkHeads : From(h)
    \/ ForkGrow /\ \E p \in 1..Len(nodes), m \in ForkJointMenu : Joint(p, m.h, m.r)
    \/ ForkGrow /\ \E p \in 1..Len(nodes) : Repair(p, "parent")
    \/ ForkGrow /\ NoBranchYet /\ \E p \in 1..Len(nodes), pipe \in ForkPipes : Branch(p, pipe, "pass")
    \/ \E p \in 1..Len(nodes), stage \in StageNames : NoLabelYet(p) /\ Label(p, stage)
    \/ \E t \in 1..Len(nodes), x \in Inputs : Stream(t, x)
    \/ \E t \in 1..Len(nodes), x \in Inputs : StreamAsync(t, x)

ForkSpec == Init /\ [][ForkNext]_vars

LayerSpec == LayerInit /\ [][LayerNext]_vars

OverlapSpec == OverlapInit /\ [][OverlapNext]_vars

\* the layered operation of stackLayer runs to its return without yielding, and
\* every await of stackAsyncLayer is on a hook that settles
LayerFairSpec ==
    /\ LayerSpec
    /\ WF_vars(LEntry) /\ WF_vars(LHandle) /\ WF_vars(LExit) /\ WF_vars(LReturn)

-----------------------------------------------------------------------------
(* What a chain is expected to compute *)

\* the nodes from the head down to node i
RECURSIVE Path(_, _)
Path(ns, i) == IF ns[i].parent = 0 THEN <<i>> ELSE Append(Path(ns, ns[i].parent), i)

\* h_i(...h_2(h_1(x))): the handlers down to node i composed
RECURSIVE ChainValue(_, _, _)
ChainValue(ns, i, x) ==
    IF ns[i].parent = 0
    THEN ApplyHandler(ns[i].handler, x)
    ELSE ApplyHandler(ns[i].handler, ChainValue(ns, ns[i].parent, x))

\* every handler down to node i is synchronous and returns a value on input x
RECURSIVE SyncSuccessChain(_, _, _)
SyncSuccessChain(ns, i, x) ==
    /\ ns[i].parent # 0 => SyncSuccessChain(ns, ns[i].parent, x)
    /\ ChainValue(ns, i, x).tag = "val"
    /\ ~ChainValue(ns, i, x).aw

IsTail(i) == i \in 1..Len(nodes) /\ nodes[i].next = 0

\* what the driver makes of a handler's or recovery handler's return value
Seen(raw) == IF last.mode = "async" THEN Await(raw) ELSE raw

\* the same chain, built again and never invoked
Rebuilt(ns) == [i \in 1..Len(ns) |-> [ns[i] EXCEPT !.result = EmptyResult, !.entryInput = NULL]]

FreshResult(ns, t, x, sync) ==
    getStreamResult(doStream(Rebuilt(ns), ns[t].start, x, sync).nodes, t)

HandlersOf(ns, t) == [k \in 1..Len(Path(ns, t)) |-> ns[Path(ns, t)[k]].handler]
RecoversOf(ns, t) == [k \in 1..Len(Path(ns, t)) |-> ns[Path(ns, t)[k]].recoverHandler]

-----------------------------------------------------------------------------
(* C1: on a freshly built chain whose handlers are synchronous and all return
   values, stream(x) returns the composition of the handlers applied to x, and
   the calls made are exactly one handler call per stage, in chain order, each
   on its predecessor's value; no recovery handler is called. *)
C1_IdentityComposition ==
    (/\ last.called /\ last.fresh /\ last.mode = "sync"
     /\ IsTail(last.target)
     /\ SyncSuccessChain(nodes, last.target, last.input))
    => LET path == Path(nodes, last.target)
       IN /\ last.ret = ChainValue(nodes, last.target, last.input)
          /\ last.calls =
               [k \in 1..Len(path) |->
                   HandlerCall(path[k],
                               IF k = 1 THEN last.input
                               ELSE ChainValue(nodes, path[k - 1], last.input))]

\* from(x => x*2).joint(x => x+1).joint(x => x*3).stream(5) = 33
C1_Witness ==
    /\ last.called /\ last.fresh /\ last.mode = "sync"
    /\ Len(nodes) = 3 /\ last.target = 3
    /\ HandlersOf(nodes, 3) = <<"dbl", "inc", "tpl">>
    /\ last.input = Val(5)
    /\ last.ret = Val(33)

(* C2: if stage k's handler returns an error E and no later stage supplies a
   recoverHandler, stream returns E and no handler of a later stage is called. *)
C2_ErrorShortCircuit ==
    (last.called /\ last.mode = "sync" /\ IsTail(last.target))
    => \A idx \in 1..Len(last.calls) :
          LET c == last.calls[idx]
              out == ApplyHandler(nodes[c.node].handler, c.arg)
          IN (/\ c.fn = "handler"
              /\ isError(out)
              /\ \A j \in 1..Len(nodes) : j > c.node => nodes[j].recoverHandler = "pass")
             => /\ last.ret = out
                /\ \A j \in 1..Len(last.calls) :
                      last.calls[j].fn = "handler" => last.calls[j].node <= c.node

(* C3: when stage k's handler returns an error E on input v and stage k+1 has
   a recoverHandler, that handler is called once, with (E, v), right after; when
   it returns a value r, stage k+1's handler is called on r and its outcome is
   stored and handed to stage k+2 as after any success. *)
C3_Recovery ==
    last.called
    => \A idx \in 1..Len(last.calls) :
          LET c == last.calls[idx]
              k == c.node
              nx == nodes[k].next
              E == Seen(ApplyHandler(nodes[k].handler, c.arg))
              r == Seen(ApplyRecover(nodes[nx].recoverHandler, E, c.arg))
              w == Seen(ApplyHandler(nodes[nx].handler, r))
          IN (/\ c.fn = "handler"
              /\ isError(E)
              /\ nx # 0
              /\ nodes[nx].recoverHandler # "pass")
             => /\ idx < Len(last.calls)
                /\ last.calls[idx + 1] = RecoverCall(nx, E, c.arg)
                /\ Cardinality({j \in 1..Len(last.calls) :
                                   last.calls[j].fn = "recover" /\ last.calls[j].node = nx}) = 1
                /\ (r.tag = "val" /\ ~r.aw)
                   => /\ idx + 2 <= Len(last.calls)
                      /\ last.calls[idx + 2] = HandlerCall(nx, r)
                      /\ (w.tag = "val" /\ ~w.aw)
                         => /\ nodes[nx].result = makePipeSuccess(w)
                            /\ nodes[nx].next # 0
                               => /\ idx + 3 <= Len(last.calls)
                                  /\ last.calls[idx + 3] = HandlerCall(nodes[nx].next, w)

\* from(x => x*2).joint(() => Error('e')).repair((_, parent) => parent ?? 0).joint(x => x+1).stream(5) = 11
C3_Witness ==
    /\ last.called /\ last.mode = "sync"
    /\ Len(nodes) = 4 /\ last.target = 4
    /\ HandlersOf(nodes, 4) = <<"dbl", "fail", "id", "inc">>
    /\ RecoversOf(nodes, 4) = <<"pass", "pass", "parent", "pass">>
    /\ last.input = Val(5)
    /\ RecoverCall(3, Err("e"), Val(10)) \in {last.calls[j] : j \in 1..Len(last.calls)}
    /\ last.ret = Val(11)

(* C4 as stated: a chain with a stage whose handler returns an awaitable
   returns the thenable error from every stream call. *)
C4_Original ==
    (/\ last.called /\ last.mode = "sync" /\ IsTail(last.target)
     /\ \E i \in 1..Len(nodes) : nodes[i].handler = "async")
    => last.ret = Err(ThenableMsg)

(* C4, amended: a stream call in which a handler is called and returns an
   awaitable stores the thenable error as that stage's outcome and drives no
   later stage; it returns that error whenever no later node holds an outcome
   of an earlier invocation, as on a freshly built chain. *)
C4_SyncAsyncDetection ==
    (last.called /\ last.mode = "sync" /\ IsTail(last.target))
    => \A idx \in 1..Len(last.calls) :
          LET c == last.calls[idx]
          IN (c.fn = "handler" /\ isThenable(ApplyHandler(nodes[c.node].handler, c.arg)))
             => /\ idx = Len(last.calls)
                /\ nodes[c.node].result = thenableError(nodes[c.node].stage)
                /\ (\A j \in 1..Len(nodes) : j > c.node => nodes[j].result = EmptyResult)
                   => last.ret = Err(ThenableMsg)
                /\ last.fresh => last.ret = Err(ThenableMsg)

\* from(x => x*2).joint(async x => x+1).joint(x => x*3).stream(5) on a fresh chain
C4_Witness ==
    /\ last.called /\ last.fresh /\ last.mode = "sync"
    /\ Len(nodes) = 3 /\ last.target = 3
    /\ HandlersOf(nodes, 3) = <<"dbl", "async", "tpl">>
    /\ last.calls = <<HandlerCall(1, last.input), HandlerCall(2, Val(2 * last.input.n))>>
    /\ last.ret = Err(ThenableMsg)

(* C5: the Result of every invocation equals the Result a freshly built
   identical chain returns for the same input. *)
C5_NoInterference ==
    last.called
    => last.ret = FreshResult(nodes, last.target, last.input, last.mode = "sync")

-----------------------------------------------------------------------------
(* Reading the trace of a layered invocation *)

Tr == lobs.trace
NLayers == Len(lstack)

\* the events of function fn, in the order they happened
EventsOf(fn) == SelectSeq(Tr, LAMBDA e : e.fn = fn)
LayersOf(fn) == [i \in 1..Len(EventsOf(fn)) |-> EventsOf(fn)[i].layer]

\* how many times function fn of layer l was called
Count(l, fn) == Cardinality({i \in 1..Len(Tr) : Tr[i].layer = l /\ Tr[i].fn = fn})

\* what the stack makes of a hook's return value
SeenL(raw) == IF lmode = "async" THEN Await(raw) ELSE raw

\* the entry hook called at event i returned an error
EntryError(i) == Tr[i].fn = "entry" /\ SeenL(Tr[i].out).tag = "err" /\ ~SeenL(Tr[i].out).aw

\* the invocation was rejected because a hook returned an awaitable to stackLayer
Rejected == \E i \in 1..Len(Tr) : lmode = "sync" /\ Tr[i].out.aw

\* the value the call at event i is expected to receive: the caller's input, the
\* value a judge supplied, or else the output of the step before
Incoming(i) ==
    IF i = 1 THEN lobs.input
    ELSE IF Tr[i - 1].kind \in {"retry", "skip", "override"} THEN Tr[i - 1].out
    ELSE IF Tr[i - 1].kind = "continue" THEN Await(Tr[i - 2].out)
    ELSE Await(Tr[i - 1].out)

IsStep(i) == Tr[i].fn \in {"entry", "handler", "exit"}

Ascending == [i \in 1..NLayers |-> i]
Descending == [i \in 1..NLayers |-> NLayers + 1 - i]

(* C6: every invocation without entry error, skip or retry runs the entry hooks
   in the order L1..Ln, then the wrapped operation once, then the exit hooks in
   the order Ln..L1, each step receiving the previous step's output. *)
C6_LayerOrdering ==
    (/\ lobs.done
     /\ ~Rejected
     /\ \A i \in 1..Len(Tr) : Tr[i].kind \in {"", "continue"} /\ ~EntryError(i))
    => /\ LayersOf("entry") = Ascending
       /\ Len(EventsOf("handler")) = 1
       /\ LayersOf("exit") = Descending
       /\ \A i \in 1..Len(Tr) : IsStep(i) => Tr[i].arg = Incoming(i)
       /\ \A i, j \in 1..Len(Tr) :
             (Tr[i].fn = "entry" /\ Tr[j].fn = "handler") \/ (Tr[i].fn = "handler" /\ Tr[j].fn = "exit")
             => i < j

(* C7 as stated: when an entry hook returns an error, that error is returned and
   in that invocation the layer's entry judge, the wrapped operation and every
   exit hook and exit judge are not run. *)
C7_Original ==
    \A i \in 1..Len(Tr) :
       EntryError(i)
       => /\ lobs.done /\ lobs.ret = SeenL(Tr[i].out)
          /\ i = Len(Tr)
          /\ \A j \in 1..Len(Tr) : Tr[j].fn \notin {"handler", "exit", "exitJudge"}
          /\ \A j \in 1..Len(Tr) : Tr[j].fn = "entryJudge" => Tr[j].layer # Tr[i].layer

(* C7, amended: when an entry hook returns an error, the layered operation
   returns that error at once: nothing runs after that entry hook (hooks of an
   earlier, retried pass of the same invocation have run before it). *)
C7_EntryFailureTerminal ==
    \A i \in 1..Len(Tr) :
       EntryError(i)
       => /\ lobs.done /\ lpc = "idle"
          /\ lobs.ret = SeenL(Tr[i].out)
          /\ i = Len(Tr)

\* the second layer's entry hook fails after the first layer was entered
C7_Witness ==
    /\ lobs.done
    /\ Len(Tr) = 3
    /\ EntryError(3)
    /\ Tr[3].layer = 2
    /\ lobs.ret = Err("entry")

(* C8: when an exit judge returns retry, all n layers are pending again in the
   original order, the exited list is empty, the next pass starts from the
   judge-supplied value, and its entry hooks run in the order L1..Ln. *)
C8_RetryRestartsStack ==
    /\ (Len(Tr) > 0 /\ Tr[Len(Tr)].kind = "retry")
       => /\ entryLayers = Ascending
          /\ exitLayers = <<>>
          /\ lcur.layeredInput = Tr[Len(Tr)].out
    /\ \A p \in 2..lobs.pass :
          LET entered == SelectSeq(Tr, LAMBDA e : e.fn = "entry" /\ e.pass = p)
          IN \A q \in 1..Len(entered) : entered[q].layer = q

-----------------------------------------------------------------------------
(* C9: retry until a counter reaches the threshold *)

\* a layer that neither fails, skips, retries nor overrides
Benign(l) ==
    /\ l.ej = "none" /\ l.xj = "none"
    /\ l.entry \in {"inc", "id"} \/ (l.entry = "aid" /\ lmode = "async")
    /\ l.exit \in {"id", "add"} \/ (l.exit = "aid" /\ lmode = "async")

RetryLayers == {i \in 1..NLayers : lstack[i].xj = "retryLt"}

\* the first invocation of a stack with one retrying layer whose counter is 0
RetryCase ==
    /\ lobs.k = 1
    /\ Cardinality(RetryLayers) = 1
    /\ \A i \in 1..NLayers : i \notin RetryLayers => Benign(lstack[i])

RetryLayer == CHOOSE i \in RetryLayers : TRUE
Threshold == lstack[RetryLayer].t

RetryOutcome ==
    LET firstOfLast == CHOOSE i \in 1..Len(Tr) :
                          Tr[i].pass = Threshold /\ (i = 1 \/ Tr[i - 1].pass < Threshold)
    IN /\ Count(0, "handler") = Threshold
       /\ Count(RetryLayer, "entry") = Threshold
       /\ Count(RetryLayer, "exit") = Threshold
       /\ Count(RetryLayer, "exitJudge") = Threshold
       /\ lobs.pass = Threshold
       /\ Tr[firstOfLast].fn = "entry"
       /\ Tr[firstOfLast].arg = IF Threshold = 1 THEN lobs.input ELSE RetryValue
       /\ \A i \in 1..Len(Tr) : (IsStep(i) /\ Tr[i].pass = Threshold) => Tr[i].arg = Incoming(i)
       /\ \E i \in 1..Len(Tr) : Tr[i].fn = "handler" /\ Tr[i].pass = Threshold
       /\ Tr[Len(Tr)].fn = "exitJudge"
       /\ lobs.ret = Await(Tr[Len(Tr) - 1].out)

(* C9: with a layer whose exit judge retries while its counter is below the
   threshold T, an invocation terminates, calls the wrapped operation and the
   layer's entry hook, exit hook and exit judge T times each, and returns the
   outcome computed from the last pass's input. *)
C9_RetryTermination ==
    /\ [](RetryCase /\ lobs.done => RetryOutcome)
    /\ ((RetryCase /\ lpc # "idle") ~> (RetryCase /\ lobs.done))

\* the stack of one layer of the test: threshold 3, three passes
C9_Witness ==
    /\ RetryCase /\ lobs.done
    /\ NLayers = 1
    /\ Threshold = 3
    /\ Count(0, "handler") = 3
    /\ lobs.ret = WrappedHandler(Val(RetryValue.n + 3))

-----------------------------------------------------------------------------
(* C10 as stated: after a skip with value s the wrapped operation is not called
   in that pass and the final outcome is s. *)
C10_Original ==
    \A i \in 1..Len(Tr) :
       Tr[i].kind = "skip"
       => /\ \A j \in 1..Len(Tr) : Tr[j].fn = "handler" => Tr[j].pass # Tr[i].pass
          /\ (lobs.done /\ Tr[i].pass = lobs.pass) => lobs.ret = Tr[i].out

(* C10, amended: after a skip with value s the wrapped operation is not called
   in that pass and s is handed to the exit phase: the skipping layer's exit
   hook receives s, and the final outcome is s whenever every exit hook run
   after the skip returns its input and every exit judge continues. *)
C10_SkipBypass ==
    \A i \in 1..Len(Tr) :
       Tr[i].kind = "skip"
       => /\ \A j \in 1..Len(Tr) : Tr[j].fn = "handler" => Tr[j].pass # Tr[i].pass
          /\ i < Len(Tr)
             => /\ Tr[i + 1].fn = "exit"
                /\ Tr[i + 1].layer = Tr[i].layer
                /\ Tr[i + 1].arg = Tr[i].out
          /\ (/\ lobs.done
              /\ \A j \in (i + 1)..Len(Tr) :
                    \/ Tr[j].fn = "exit" /\ Tr[j].out = Tr[j].arg
                    \/ Tr[j].fn = "exitJudge" /\ Tr[j].kind = "continue")
             => lobs.ret = Tr[i].out

\* a skip with a value and one with an error, returned as the final outcome
C10_Witness ==
    /\ lobs.done
    /\ \E i \in 1..Len(Tr) : Tr[i].kind = "skip" /\ lobs.ret = Tr[i].out
    /\ Count(0, "handler") = 0
    /\ Len(EventsOf("exit")) > 0

-----------------------------------------------------------------------------
(* C11: override *)

\* the exit judge called at event i said override
IsOverride(i) == Tr[i].fn = "exitJudge" /\ Tr[i].kind = "override"

\* the layers whose exit hook ran after event i in the pass of event i
ExitedAfter(i) ==
    LET later == SelectSeq([j \in 1..Len(Tr) |-> [e |-> Tr[j], at |-> j]],
                           LAMBDA r : r.at > i /\ r.e.fn = "exit" /\ r.e.pass = Tr[i].pass)
    IN [q \in 1..Len(later) |-> later[q].e.layer]

\* the layers outside layer l, innermost first
OuterOf(l) == [q \in 1..(l - 1) |-> l - q]

(* C11: when a layer's exit judge returns override with error E, the value
   becomes E and the unwinding goes on: the exit hook and exit judge of every
   layer outside the overriding one run after it, innermost first, and the
   next exit hook receives E; with no layer left, E is returned. *)
C11_OverrideContinues ==
    \A i \in 1..Len(Tr) :
       IsOverride(i)
       => /\ i < Len(Tr)
             => /\ Tr[i + 1].fn = "exit"
                /\ Tr[i + 1].arg = Tr[i].out
          /\ (lobs.done /\ i = Len(Tr)) => lobs.ret = Tr[i].out
          /\ (/\ lobs.done
              /\ ~Rejected
              /\ \A j \in i..Len(Tr) : Tr[j].kind # "retry")
             => /\ ExitedAfter(i) = OuterOf(Tr[i].layer)
                /\ \A j \in (i + 1)..Len(Tr) :
                      Tr[j].fn = "exit" => j < Len(Tr) /\ Tr[j + 1].fn = "exitJudge"

-----------------------------------------------------------------------------
(* C12, C13: recovery *)

Calls == last.calls

\* the handler call at position idx of the call log returned an error
HandlerFailed(idx) ==
    /\ Calls[idx].fn = "handler"
    /\ isError(Seen(ApplyHandler(nodes[Calls[idx].node].handler, Calls[idx].arg)))

\* the stages after stage k that supply a recoverHandler
Recoverers(k) == {j \in 1..Len(nodes) : j > k /\ nodes[j].recoverHandler # "pass"}

(* C12 as stated: after stage k fails, the first later stage j > k that supplies
   a recoverHandler is invoked with the error, also when stages with the
   default recovery lie between k and j. *)
C12_Original ==
    (last.called /\ IsTail(last.target))
    => \A idx \in 1..Len(Calls) :
          (HandlerFailed(idx) /\ Recoverers(Calls[idx].node) # {})
          => LET k == Calls[idx].node
                 j == CHOOSE m \in Recoverers(k) : \A o \in Recoverers(k) : m <= o
                 E == Seen(ApplyHandler(nodes[k].handler, Calls[idx].arg))
             IN \E q \in 1..Len(Calls) :
                   Calls[q].fn = "recover" /\ Calls[q].node = j /\ Calls[q].arg = E

(* C12, amended: recovery is opt-in at the stage right after the failing one.
   After stage k fails with E on input v, stage k+1 is driven. Without a
   recoverHandler of its own it re-emits E as its outcome and the drive stops:
   nothing after it is called. With a recoverHandler, that handler is called
   with (E, v); a value r it returns is given to stage k+1's handler, and the
   stages after k+1 run on as after any success. *)
C12_RecoveryOptIn ==
    last.called
    => \A idx \in 1..Len(Calls) :
          LET k == Calls[idx].node
              nx == nodes[k].next
              E == Seen(ApplyHandler(nodes[k].handler, Calls[idx].arg))
              r == Seen(ApplyRecover(nodes[nx].recoverHandler, E, Calls[idx].arg))
              w == Seen(ApplyHandler(nodes[nx].handler, r))
          IN (HandlerFailed(idx) /\ nx # 0)
             => /\ idx < Len(Calls)
                /\ Calls[idx + 1] = RecoverCall(nx, E, Calls[idx].arg)
                /\ nodes[nx].recoverHandler = "pass"
                   => /\ idx + 1 = Len(Calls)
                      /\ nodes[nx].result = makePipeError(E, NULL, nodes[nx].stage)
                /\ (nodes[nx].recoverHandler # "pass" /\ r.tag = "val" /\ ~r.aw)
                   => /\ idx + 2 <= Len(Calls)
                      /\ Calls[idx + 2] = HandlerCall(nx, r)
                      /\ (w.tag = "val" /\ ~w.aw /\ nodes[nx].next # 0)
                         => /\ idx + 3 <= Len(Calls)
                            /\ Calls[idx + 3] = HandlerCall(nodes[nx].next, w)

\* from(x => x*2).joint(() => Error('e')).joint(x => x+1).repair(...).stream(5):
\* the repair of stage 4 is never called
C12_Witness ==
    /\ last.called /\ last.fresh /\ last.mode = "sync"
    /\ Len(nodes) = 4 /\ last.target = 4
    /\ HandlersOf(nodes, 4) = <<"dbl", "fail", "inc", "id">>
    /\ RecoversOf(nodes, 4) = <<"pass", "pass", "pass", "parent">>
    /\ Calls = <<HandlerCall(1, last.input), HandlerCall(2, Val(2 * last.input.n)),
                 RecoverCall(3, Err("e"), Val(2 * last.input.n))>>
    /\ nodes[4].result = EmptyResult
    /\ last.ret = Err("e")

(* C13: when a stage's recoverHandler, called on an upstream error E, returns
   an error E', E' is stored as that node's outcome, the node's handler is not
   called, no successor is driven, and stream returns E'. *)
C13_RecoveryErrorTerminal ==
    (last.called /\ IsTail(last.target))
    => \A idx \in 1..Len(Calls) :
          LET c == Calls[idx]
              E2 == Seen(ApplyRecover(nodes[c.node].recoverHandler, c.arg, c.origin))
          IN (c.fn = "recover" /\ nodes[c.node].recoverHandler # "pass" /\ isError(E2))
             => /\ nodes[c.node].result = makePipeError(E2, NULL, nodes[c.node].stage)
                /\ idx = Len(Calls)
                /\ last.ret = E2

-----------------------------------------------------------------------------
(* C14..C17: parallel stages *)

\* the call at position idx of the call log is the handler of a parallel stage
IsParCall(idx) ==
    /\ Calls[idx].fn = "handler"
    /\ nodes[Calls[idx].node].par.form # "none"

ParOf(idx) == nodes[Calls[idx].node].par
Size(idx) == Len(ParOf(idx).entries)

\* what entry q of the stage called at idx returns on the stage's input
OutputOf(idx, q) == EntryResult(ParOf(idx).entries[q], Calls[idx].arg)
Failing(idx) == {q \in 1..Size(idx) : isError(OutputOf(idx, q))}

\* the position in the call log right after the stage's own records
AfterPar(idx) == idx + 2 * Size(idx) + 1

\* a keyed result read as a mapping from key to value
AsMapping(items) ==
    [k \in {items[q].key : q \in 1..Len(items)} |->
        items[CHOOSE q \in 1..Len(items) : items[q].key = k].v]

\* the stage called at idx with its entries in the opposite order, arriving as lats says
Reversed(par, lats) ==
    [par EXCEPT !.entries =
        [q \in 1..Len(par.entries) |->
            [par.entries[Len(par.entries) + 1 - q] EXCEPT !.lat = lats[q]]]]

(* C14: under streamAsync, a parallel stage with one handler returning a value
   and one returning an error E: with failFast the stage's outcome is the error
   E and the next stage's recoverHandler is called with E; without failFast the
   outcome is the success holding the whole array / mapping, the error in it
   as a value, and the next stage's handler is called on it. *)
C14_FailFastVsCollectAll ==
    (last.called /\ last.mode = "async")
    => \A idx \in 1..Len(Calls) :
          (IsParCall(idx) /\ Cardinality(Failing(idx)) = 1 /\ Size(idx) > 1)
          => LET k == Calls[idx].node
                 x == Calls[idx].arg
                 E == OutputOf(idx, CHOOSE q \in Failing(idx) : TRUE)
                 nx == nodes[k].next
                 value == nodes[k].result.value
             IN IF ParOf(idx).failFast
                THEN /\ nodes[k].result = makePipeError(E, x, nodes[k].stage)
                     /\ nx # 0 => /\ AfterPar(idx) <= Len(Calls)
                                  /\ Calls[AfterPar(idx)] = RecoverCall(nx, E, x)
                ELSE /\ nodes[k].result.kind = "success"
                     /\ value.tag = ParOf(idx).form
                     /\ Len(value.items) = Size(idx)
                     /\ \A q \in 1..Size(idx) :
                           AsMapping(value.items)[ParOf(idx).entries[q].key] = OutputOf(idx, q)
                     /\ nx # 0 => /\ AfterPar(idx) <= Len(Calls)
                                  /\ Calls[AfterPar(idx)] = HandlerCall(nx, value)

\* from(x => x+1).parallelJoint([x => x+1, () => Error('e')]).repair(...).streamAsync(5):
\* the repair receives Error('e') and the stage's input
C14_Witness ==
    /\ last.called /\ last.mode = "async" /\ last.input = Val(5)
    /\ Len(nodes) = 3 /\ last.target = 3
    /\ nodes[2].par.form = "array" /\ nodes[2].par.failFast
    /\ nodes[2].par.entries[1].h = "inc" /\ nodes[2].par.entries[2].h = "fail"
    /\ nodes[2].result = makePipeError(Err("e"), Val(6), nodes[2].stage)
    /\ Calls[Len(Calls) - 1] = RecoverCall(3, Err("e"), Val(6))
    /\ last.ret = Val(6)

(* C15: whenever keyedParallelJoint / keyedParallelBranch with {a: h1, b: h2}
   gives a mapping, the stage built from {b: h2, a: h1} gives, for the same
   input and every order of arrival, a mapping with the same keys and the same
   value under every key. *)
C15_KeyedOrderIndependence ==
    (last.called /\ last.mode = "async")
    => \A idx \in 1..Len(Calls) :
          (/\ IsParCall(idx) /\ ParOf(idx).form = "keyed"
           /\ nodes[Calls[idx].node].result.kind = "success")
          => \A lats \in [1..Size(idx) -> Latencies] :
                LET mine == nodes[Calls[idx].node].result.value
                    other == Await(ParallelHandler(Reversed(ParOf(idx), lats), Calls[idx].arg))
                IN /\ other.tag = "keyed"
                   /\ AsMapping(other.items) = AsMapping(mine.items)
                   /\ DOMAIN AsMapping(mine.items) = {ParOf(idx).entries[q].key : q \in 1..Size(idx)}

\* {a: slow x => x+1, b: () => Error('e')} without failFast: b's result arrives
\* first and the mapping still has x+1 under a and the error under b
C15_Witness ==
    /\ last.called /\ last.mode = "async"
    /\ Len(nodes) = 2
    /\ nodes[2].par.form = "keyed" /\ ~nodes[2].par.failFast
    /\ nodes[2].par.entries[1] = [key |-> "a", h |-> "inc", lat |-> 1, sub |-> FALSE]
    /\ nodes[2].par.entries[2] = [key |-> "b", h |-> "fail", lat |-> 0, sub |-> FALSE]
    /\ last.ret.tag = "keyed"
    /\ last.ret.items = << [key |-> "b", v |-> Err("e")],
                           [key |-> "a", v |-> Val(last.input.n + 2)] >>

(* C16: the result of a parallel stage follows the order of the array / of the
   input keys and not the order of arrival: a collected array lists the
   results in the input order, a collected mapping holds every handler's result
   under its key, and with failFast and several errors the stage's outcome is
   the error of the earliest failing entry in the input order. *)
C16_ParallelDeterminism ==
    (last.called /\ last.mode = "async")
    => \A idx \in 1..Len(Calls) :
          IsParCall(idx)
          => LET k == Calls[idx].node
                 first == CHOOSE q \in Failing(idx) : \A o \in Failing(idx) : q <= o
                 value == nodes[k].result.value
             IN IF ParOf(idx).failFast /\ Failing(idx) # {}
                THEN nodes[k].result = makePipeError(OutputOf(idx, first), Calls[idx].arg,
                                                     nodes[k].stage)
                ELSE /\ nodes[k].result.kind = "success"
                     /\ \A q \in 1..Size(idx) :
                           AsMapping(value.items)[ParOf(idx).entries[q].key] = OutputOf(idx, q)
                     /\ ParOf(idx).form = "array"
                        => \A q \in 1..Size(idx) : value.items[q].v = OutputOf(idx, q)

(* C17: in every pass through a parallel stage each of its handlers or
   sub-chains is called exactly once, on the stage's input, whatever failFast
   is and whichever of them fail, and every result has arrived before the
   stage's outcome is made. *)
C17_NoCancellation ==
    last.called
    => \A idx \in 1..Len(Calls) :
          IsParCall(idx)
          => LET k == Calls[idx].node
                 n == Size(idx)
                 keys == {ParOf(idx).entries[q].key : q \in 1..n}
             IN /\ idx + n <= Len(Calls)
                /\ \A q \in 1..n : Calls[idx + q] = SubCall(k, ParOf(idx).entries[q], Calls[idx].arg)
                /\ \A key \in keys :
                      Cardinality({j \in 1..Len(Calls) :
                         Calls[j].fn = "sub" /\ Calls[j].node = k /\ Calls[j].key = key}) = 1
                /\ Cardinality({j \in 1..Len(Calls) : Calls[j].fn = "handler" /\ Calls[j].node = k}) = 1
                /\ last.mode = "async"
                   => /\ idx + 2 * n <= Len(Calls)
                      /\ \A key \in keys :
                            \E j \in (idx + n + 1)..(idx + 2 * n) :
                               /\ Calls[j].fn = "arrival" /\ Calls[j].node = k
                               /\ Calls[j].key = key
                      /\ nodes[k].result # EmptyResult
                      /\ \A j \in (idx + 2 * n + 1)..Len(Calls) : Calls[j].node # k

\* with failFast the first handler fails and the second one is still called
C17_Witness ==
    /\ last.called /\ last.mode = "async"
    /\ Len(nodes) = 2
    /\ nodes[2].par.form # "none" /\ nodes[2].par.failFast
    /\ nodes[2].par.entries[1].h = "fail" /\ nodes[2].par.entries[2].h = "inc"
    /\ Len(Calls) = 6
    /\ Calls[4].fn = "sub" /\ Calls[4].key = nodes[2].par.entries[2].key
    /\ Calls[4].arg = Calls[3].arg
    /\ last.ret = Err("e")

-----------------------------------------------------------------------------
(* C18: the asynchronous driver *)

\* no handler and no recovery handler down to node t returns an awaitable
AllSync(ns, t) ==
    \A k \in 1..Len(Path(ns, t)) :
       /\ HandlersOf(ns, t)[k] # "async"
       /\ RecoversOf(ns, t)[k] # "rasync"

\* the handlers down to node i composed, every result resolved before it is handed on
RECURSIVE ResolvedValue(_, _, _)
ResolvedValue(ns, i, x) ==
    IF ns[i].parent = 0
    THEN [ApplyHandler(ns[i].handler, x) EXCEPT !.aw = FALSE]
    ELSE [ApplyHandler(ns[i].handler, ResolvedValue(ns, ns[i].parent, x)) EXCEPT !.aw = FALSE]

\* every handler down to node i resolves to a value on input x
ResolvedSuccessChain(ns, i, x) ==
    \A k \in 1..Len(Path(ns, i)) : ResolvedValue(ns, Path(ns, i)[k], x).tag = "val"

(* C18: on a chain whose handlers and recovery handlers are all synchronous,
   streamAsync returns what stream returns on the same chain and input, makes
   the same calls in the same order and leaves the same outcomes; and on a
   freshly built chain that mixes synchronous and asynchronous handlers, all
   resolving to values, streamAsync returns the composition of the resolved
   values. *)
C18_AsyncSameControlFlow ==
    /\ [][(last'.called /\ last'.mode = "async" /\ AllSync(nodes, last'.target))
          => LET d == doStream(nodes, nodes[last'.target].start, last'.input, TRUE)
             IN /\ last'.ret = getStreamResult(d.nodes, last'.target)
                /\ last'.calls = d.calls
                /\ nodes' = d.nodes]_vars
    /\ []((/\ last.called /\ last.fresh /\ last.mode = "async"
           /\ IsTail(last.target)
           /\ ResolvedSuccessChain(nodes, last.target, last.input))
          => /\ last.ret = ResolvedValue(nodes, last.target, last.input)
             /\ Len(last.calls) = Len(Path(nodes, last.target))
             /\ \A k \in 1..Len(last.calls) : last.calls[k].fn = "handler")

\* from(x => x*2).joint(async x => x+1).joint(x => x*3).streamAsync(5) = 33
C18_Witness ==
    /\ last.called /\ last.fresh /\ last.mode = "async"
    /\ Len(nodes) = 3 /\ last.target = 3
    /\ HandlersOf(nodes, 3) = <<"dbl", "async", "tpl">>
    /\ last.input = Val(5)
    /\ last.ret = Val(33)

-----------------------------------------------------------------------------
(* C19: stream is total *)

\* how many times function fn of node i was called in the invocation
CallCount(i, fn) ==
    Cardinality({j \in 1..Len(Calls) : Calls[j].node = i /\ Calls[j].fn = fn})

(* C19: every stream / streamAsync call on a chain comes back with a value or
   an Error, never with nothing and never with a pending awaitable; it visits
   the nodes in chain order and calls the handler and the recovery handler of
   every node at most once; a handler error, a recovery error and an awaitable
   handed to stream are all kept as Error outcomes of their node, and the last
   two end the drive. *)
C19_StreamTotal ==
    last.called
    => /\ last.ret.tag \in {"val", "err"}
       /\ ~last.ret.aw
       /\ \A i \in 1..Len(nodes) : CallCount(i, "handler") <= 1 /\ CallCount(i, "recover") <= 1
       /\ \A j \in 1..Len(Calls) : j > 1 => Calls[j - 1].node <= Calls[j].node
       /\ \A j \in 1..Len(Calls) :
             LET c == Calls[j]
                 out == IF c.fn = "handler"
                        THEN ApplyHandler(nodes[c.node].handler, c.arg)
                        ELSE ApplyRecover(nodes[c.node].recoverHandler, c.arg, c.origin)
             IN /\ isError(Seen(out))
                   => /\ nodes[c.node].result.kind = "error"
                      /\ nodes[c.node].result.value = Seen(out)
                      /\ c.fn = "recover" => j = Len(Calls)
                /\ (last.mode = "sync" /\ isThenable(out))
                   => /\ nodes[c.node].result = thenableError(nodes[c.node].stage)
                      /\ j = Len(Calls)

\* from(() => Error('e')).repair(() => Error('r')).stream(x): the recovery error comes back
C19_Witness ==
    /\ last.called /\ last.mode = "sync"
    /\ Len(nodes) = 2 /\ last.target = 2
    /\ HandlersOf(nodes, 2) = <<"fail", "id">>
    /\ RecoversOf(nodes, 2) = <<"pass", "rfail">>
    /\ Calls = <<HandlerCall(1, last.input), RecoverCall(2, Err("e"), last.input)>>
    /\ last.ret = Err("r")

-----------------------------------------------------------------------------
(* C20: labels *)

\* the chain as it would be had label never been called
Unlabelled(ns) ==
    [i \in 1..Len(ns) |->
        [ns[i] EXCEPT !.stage = "no name",
                      !.result.stage = IF ns[i].result.kind = "error" THEN "no name" ELSE ""]]

(* C20: a stream / streamAsync call on a chain with labelled nodes returns what
   the same call returns on the chain without the labels, makes the same calls
   and leaves the same outcomes but for the stage text kept with an error; and
   label adds no node and changes nothing of a node but its stage text. *)
C20_LabelNeutral ==
    /\ [][last'.called
          => LET t == last'.target
                 d == doStream(Unlabelled(nodes), nodes[t].start, last'.input,
                               last'.mode = "sync")
             IN /\ last'.ret = getStreamResult(d.nodes, t)
                /\ last'.calls = d.calls
                /\ Unlabelled(nodes') = d.nodes]_vars
    /\ [][(~last'.called /\ Len(nodes') = Len(nodes))
          => \A i \in 1..Len(nodes) : [nodes'[i] EXCEPT !.stage = nodes[i].stage] = nodes[i]]_vars

\* from(chk).joint(fail).label('test').stream(6): Error('e') from the labelled stage
C20_Witness ==
    /\ last.called /\ last.mode = "sync"
    /\ Len(nodes) = 2 /\ last.target = 2
    /\ nodes[2].stage = "test"
    /\ nodes[2].result = makePipeError(Err("e"), Val(6), "test")
    /\ last.ret = Err("e")

-----------------------------------------------------------------------------
(* C22: stackLayer and awaitables *)

\* the phase a thenable error names for the function of a trace event
PhaseOf(fn) ==
    CASE fn = "entry" -> "entry"
      [] fn = "exit" -> "exit"
      [] fn = "entryJudge" -> "onEntryJudge"
      [] fn = "exitJudge" -> "onExitJudge"

\* the call at event i handed an awaitable to stackLayer
GaveAwaitable(i) == lmode = "sync" /\ Tr[i].fn # "handler" /\ Tr[i].out.aw

(* C22: when an entry hook, exit hook, entry judge or exit judge of a layer in
   a stackLayer stack returns an awaitable, the layered operation returns at
   once an Error, not a value and not an awaitable, that names the phase and
   the layer by its 1-based position in the stack; nothing runs after the
   offending call in that invocation. *)
C22_SyncRejectsAwaitables ==
    \A i \in 1..Len(Tr) :
       GaveAwaitable(i)
       => /\ lobs.done /\ lpc = "idle"
          /\ i = Len(Tr)
          /\ isError(lobs.ret)
          /\ lobs.ret = layerThenableError(PhaseOf(Tr[i].fn), Tr[i].layer)

-----------------------------------------------------------------------------
(* C26, C27: the lists of the stack between invocations *)

(* C26: at the start of every invocation of a layered operation the exited
   list is empty and the pending list holds all layers in the order given to
   stackLayer / stackAsyncLayer; every invocation that has returned leaves the
   lists so. *)
C26_StackStartState ==
    /\ lobs.k > 0 => lobs.entry0 = Ascending /\ lobs.exit0 = <<>>
    /\ lpc = "idle" => entryLayers = Ascending /\ exitLayers = <<>>

\* the entry hook of layer l ran in this invocation before event i and gave a value
EnteredBefore(l, i) ==
    \E j \in 1..(i - 1) :
       /\ Tr[j].layer = l /\ Tr[j].fn = "entry"
       /\ SeenL(Tr[j].out).tag = "val" /\ ~SeenL(Tr[j].out).aw

(* C27: whenever the wrapped operation is invoked, the entry hook of every
   layer of the stack has run earlier in that invocation and returned a value
   that is not an error. *)
C27_NoEntryBypass ==
    \A i \in 1..Len(Tr) :
       Tr[i].fn = "handler" => \A l \in 1..NLayers : EnteredBefore(l, i)

-----------------------------------------------------------------------------
(* C30: what an exit judge is given *)

\* event i is a call of the exit judge the layer was made with
ExitJudgeCalled(i) ==
    /\ Tr[i].fn = "exitJudge"
    /\ lstack[Tr[i].layer].xj # "none"
    /\ Tr[i].orig # NULL

\* the entry events of layer l before event i
EntriesBefore(l, i) == {j \in 1..(i - 1) : Tr[j].layer = l /\ Tr[j].fn = "entry"}

\* the judge called at event i got the exit hook's output and the input of the
\* layer's latest entry in this invocation
JudgeArguments(i) ==
    /\ i > 1
    /\ Tr[i - 1].fn = "exit" /\ Tr[i - 1].layer = Tr[i].layer
    /\ Tr[i].arg = SeenL(Tr[i - 1].out)
    /\ EntriesBefore(Tr[i].layer, i) # {}
    /\ LET j == CHOOSE m \in EntriesBefore(Tr[i].layer, i) :
                   \A o \in EntriesBefore(Tr[i].layer, i) : o <= m
       IN Tr[i].orig = Tr[j].arg

\* the step ends the exit pass of layer l with continue
ExitContinued(l) ==
    /\ Len(lobs'.trace) = Len(lobs.trace) + 2
    /\ LET e == lobs'.trace[Len(lobs'.trace)]
       IN e.layer = l /\ e.fn = "exitJudge" /\ e.kind = "continue"

(* C30: whenever a layer's exit judge is called it receives the exit hook's
   output and, as the original input, the value given to that layer's entry
   hook in its latest pass of the current invocation; and a layer's last-input
   reference is reset by, and only by, the layer's exit pass ending with
   continue. *)
C30_ExitJudgeArguments ==
    /\ [](\A i \in 1..Len(Tr) : ExitJudgeCalled(i) => JudgeArguments(i))
    /\ [][\A l \in 1..NLayers :
             /\ (lref[l] # NULL /\ lref'[l] = NULL) => ExitContinued(l)
             /\ ExitContinued(l) => lref'[l] = NULL]_vars

-----------------------------------------------------------------------------
(* C25: overlapping invocations of an asynchronous layered operation *)

\* the trace of invocation a
TrOf(a) == linv[a].trace

\* the values invocation a gave to the entry hook of layer l
EntryArgs(a, l) ==
    {TrOf(a)[j].arg : j \in {m \in 1..Len(TrOf(a)) : TrOf(a)[m].layer = l /\ TrOf(a)[m].fn = "entry"}}

\* event i of invocation a is a call of an exit judge through the layer's wrapper
OExitJudged(a, i) == TrOf(a)[i].fn = "exitJudge"

\* invocation a called the wrapped operation without having run the entry hook of layer l
Bypassed(a, l) ==
    /\ \E i \in 1..Len(TrOf(a)) : TrOf(a)[i].fn = "handler"
    /\ EntryArgs(a, l) = {}

(* C25: the invocations of one asynchronous layered operation share every
   layer's last-input reference: the original input an exit judge is given is
   a value that some invocation, the judge's own or another, gave to that
   layer's entry hook; an invocation that runs alone on a fresh stack has all
   its exit judges given its own entry input, and calls the wrapped operation
   only after it has run every layer's entry hook. (The witness is the overlap
   in which the second invocation's exit judge is given the first one's input
   and its wrapped operation runs without the layer's entry hook.) *)
C25_LayerOverlap ==
    /\ \A a \in 1..Len(linv) : \A i \in 1..Len(TrOf(a)) :
          (OExitJudged(a, i) /\ TrOf(a)[i].orig # NULL)
          => \E b \in 1..Len(linv) : TrOf(a)[i].orig \in EntryArgs(b, TrOf(a)[i].layer)
    /\ Len(linv) = 1
       => /\ \A i \in 1..Len(TrOf(1)) :
                OExitJudged(1, i) => EntryArgs(1, TrOf(1)[i].layer) = {TrOf(1)[i].orig}
          /\ \A l \in 1..NLayers : ~Bypassed(1, l)

\* the stack of one layer with an exit judge: the second call starts while the
\* first awaits the entry hook; its wrapped operation runs at once and its
\* exit judge is given the first call's input
C25_Witness ==
    /\ Len(linv) = 2
    /\ NLayers = 1 /\ lstack[1].xj = "ovr"
    /\ linv[1].pc = "entry"
    /\ EntryArgs(1, 1) = {Val(1)}
    /\ Bypassed(2, 1)
    /\ \E i \in 1..Len(TrOf(2)) :
          /\ OExitJudged(2, i) /\ TrOf(2)[i].layer = 1
          /\ TrOf(2)[i].orig = Val(1)
          /\ linv[2].input = Val(2)

-----------------------------------------------------------------------------
(* C28, C29: which nodes an invocation touches *)

\* node i was driven in the invocation: its handler or recovery handler was called
Driven(i) == \E j \in 1..Len(Calls) : Calls[j].node = i

(* C28: when an invocation ends no node holds an outcome of an earlier
   invocation: every outcome slot was emptied when the invocation started, so a
   node that was not driven in it holds the empty outcome. *)
C28_SlotsResetPerInvocation ==
    last.called
    => \A i \in 1..Len(nodes) : ~Driven(i) => nodes[i].result = EmptyResult

\* what the call c of the log returned, as the driver saw it
Returned(ns, c, sync) ==
    LET raw == IF c.fn = "handler" THEN InvokeHandler(ns[c.node], c.arg)
               ELSE ApplyRecover(ns[c.node].recoverHandler, c.arg, c.origin)
    IN IF sync THEN raw ELSE Await(raw)

\* the call c of the log made the drive halt at its node
Halts(ns, c, sync) ==
    \/ c.fn = "recover" /\ isError(Returned(ns, c, sync))
    \/ sync /\ isThenable(Returned(ns, c, sync))

(* C29: in every invocation the driven nodes are the nodes from the head down
   to the first node whose recovery result is an error or, under stream, whose
   handler or recovery handler returns an awaitable (all nodes when there is no
   such node); no handler or recovery handler of a later node is called and
   the later nodes are left exactly as they were. *)
C29_DrivenPrefix ==
    [][last'.called
       => LET calls == last'.calls
              sync == last'.mode = "sync"
              own == {j \in 1..Len(calls) : calls[j].fn \in {"handler", "recover"}}
              driven == {calls[j].node : j \in own}
              m == CHOOSE i \in driven : \A o \in driven : o <= i
          IN /\ driven # {}
             /\ driven = 1..m
             /\ \A j \in own : Halts(nodes', calls[j], sync)
                               => /\ calls[j].node = m
                                  /\ \A o \in own : o <= j
             /\ m < Len(nodes) => \E j \in own : Halts(nodes', calls[j], sync)
             /\ \A i \in (m + 1)..Len(nodes) : nodes'[i] = nodes[i]]_vars

\* from(chk).joint(fail).joint(inc): stream(6) leaves Error('e') at node 3;
\* stream(5) then halts at node 2 and node 3 keeps that outcome
C29_Witness ==
    /\ last.called /\ last.mode = "sync" /\ ~last.fresh
    /\ Len(nodes) = 3 /\ last.target = 3
    /\ HandlersOf(nodes, 3) = <<"chk", "fail", "inc">>
    /\ last.input = Val(5)
    /\ Calls = <<HandlerCall(1, Val(5)), RecoverCall(2, Err("odd"), Val(5))>>
    /\ ~Driven(3)
    /\ nodes[3].result = makePipeError(Err("e"), NULL, nodes[3].stage)

-----------------------------------------------------------------------------
(* Branch stages *)

IsBranch(node) == node.handler \in {"branch", "branchAsync"}

\* the first call made on node i in a call log, as a set of at most one record
FirstCallOf(calls, i) ==
    LET own == {q \in 1..Len(calls) : calls[q].node = i /\ calls[q].fn \in {"handler", "recover"}}
    IN {calls[q] : q \in {o \in own : \A m \in own : o <= m}}

\* the driver of the call is the one the branch stage was built for
BranchDriven(node, sync) == node.handler = "branch" \/ ~sync

(* C21: in every invocation a branch / branchAsync stage whose handler runs
   invokes its sub-chain exactly once, with the value the stage received; the
   Result the sub-chain then holds becomes the stage's outcome: a success value
   is handed to the next stage's handler, an error makes the stage fail with
   that error and its own input, which the next stage's recoverHandler
   receives. Under stream a branchAsync stage fails like any awaitable handler. *)
C21_BranchAsOneStage ==
    [][last'.called
       => \A j \in 1..Len(last'.calls) :
             LET c == last'.calls[j]
                 k == c.node
                 sync == last'.mode = "sync"
                 before == nodes[k].env.pipe
                 after == nodes'[k].env.pipe
                 R == getStreamResult(after, Len(after))
                 subs == {q \in 1..Len(last'.calls) :
                             last'.calls[q].fn = "sub" /\ last'.calls[q].node = k}
                 nx == nodes[k].next
             IN c.fn = "handler" /\ IsBranch(nodes[k])
                => /\ Cardinality(subs) = 1
                   /\ \A q \in subs : last'.calls[q].arg = c.arg
                   /\ nodes[k].parent # 0 /\ nodes'[nodes[k].parent].result.kind = "success"
                      => c.arg = nodes'[nodes[k].parent].result.value
                   /\ after = doStream(before, 1, c.arg, nodes[k].handler = "branch").nodes
                   /\ after[1].entryInput = c.arg
                   /\ IF ~BranchDriven(nodes[k], sync)
                      THEN nodes'[k].result = thenableError(nodes[k].stage)
                      ELSE IF isError(R)
                      THEN /\ nodes'[k].result = makePipeError(R, c.arg, nodes[k].stage)
                           /\ nx # 0 => FirstCallOf(last'.calls, nx) = {RecoverCall(nx, R, c.arg)}
                      ELSE /\ nodes'[k].result = makePipeSuccess(R)
                           /\ nx # 0 => FirstCallOf(last'.calls, nx) = {HandlerCall(nx, R)}]_vars

\* head.branch(from(chk).joint(tpl)).repair(parent) called with 6: the head makes
\* 7, the sub-chain fails on it and the repair stage is handed the error and 7
C21_Witness ==
    /\ last.called /\ last.mode = "sync" /\ last.input = Val(6)
    /\ Len(nodes) = 3 /\ nodes[1].handler = "inc" /\ nodes[2].handler = "branch"
    /\ Len(nodes[2].env.pipe) = 2
    /\ HandlersOf(nodes[2].env.pipe, 2) = <<"chk", "tpl">>
    /\ nodes[2].result = makePipeError(Err("odd"), Val(7), nodes[2].stage)
    /\ Calls = <<HandlerCall(1, Val(6)), HandlerCall(2, Val(7)),
                 [node |-> 2, fn |-> "sub", arg |-> Val(7), origin |-> NULL, key |-> "pipe"],
                 RecoverCall(3, Err("odd"), Val(7)), HandlerCall(3, Val(7))>>
    /\ last.ret = Val(7)

\* the same stage passes the sub-chain's value on when the sub-chain succeeds
C21_WitnessSuccess ==
    /\ last.called /\ last.mode = "async" /\ last.input = Val(5)
    /\ Len(nodes) = 3 /\ nodes[1].handler = "inc" /\ nodes[2].handler = "branchAsync"
    /\ Len(nodes[2].env.pipe) = 2
    /\ HandlersOf(nodes[2].env.pipe, 2) = <<"chk", "tpl">>
    /\ nodes[2].result = makePipeSuccess(Val(18))
    /\ HandlerCall(3, Val(18)) \in {Calls[q] : q \in 1..Len(Calls)}

-----------------------------------------------------------------------------
(* Window stages *)

HasWindow == \E i \in 1..Len(nodes) : nodes[i].handler = "window"

\* what the twin's tail.stream(x) returned
TwinRet == getStreamResult(twin, Len(twin))

(* C23: a window stage is transparent: after every call of a sequence of calls,
   the chain with window stages has returned the same value or error as the
   same chain without them, called with the same inputs. *)
C23_WindowTransparent ==
    last.called /\ twin # <<>> /\ HasWindow => last.ret = TwinRet

-----------------------------------------------------------------------------
(* Overlapping streamAsync calls *)

FlightDone(a) == a \in 1..Len(flight) /\ flight[a].pc = "done"

\* what a call with this input returns from a chain never called before
AloneOnFresh(a) ==
    FreshResult(nodes, flight[a].target, flight[a].input, FALSE)

(* C24: a streamAsync call that no other call of the chain overlaps returns
   what it returns when run alone; calls that overlap share the outcome slots,
   and a call can then return something else (C24_Witness, C24_WitnessNotFound). *)
C24_AloneUnlessOverlapped ==
    \A a \in 1..Len(flight) :
        FlightDone(a) /\ ~flight[a].overlapped => flight[a].ret = flight[a].alone

\* from(inc).joint(tpl): streamAsync(5) and streamAsync(6) overlap and the
\* first call returns the Result of the second call's input
C24_Witness ==
    /\ Len(flight) = 2 /\ FlightDone(1)
    /\ HandlersOf(nodes, Len(nodes)) = <<"inc", "tpl">>
    /\ flight[1].input = Val(5) /\ flight[2].input = Val(6)
    /\ flight[1].overlapped
    /\ flight[1].alone = Val(18) /\ AloneOnFresh(1) = Val(18)
    /\ flight[1].ret = Val(21)
    /\ flight[1].ret = FreshResult(nodes, 2, flight[2].input, FALSE)

\* the first call returns while the second call has just emptied the tail's slot
C24_WitnessNotFound ==
    /\ Len(flight) = 2 /\ FlightDone(1)
    /\ flight[1].overlapped
    /\ flight[1].alone # Err("Result not found")
    /\ flight[1].ret = Err("Result not found")

-----------------------------------------------------------------------------
(* Skips *)

\* the layers whose hook fn ran in pass p, in the order of the calls
LayersRun(fn, p) ==
    LET ran == SelectSeq(Tr, LAMBDA e : e.fn = fn /\ e.pass = p)
    IN [j \in 1..Len(ran) |-> ran[j].layer]

\* the layers k, k - 1, ..., 1
DownFrom(k) == [j \in 1..k |-> k + 1 - j]

\* what the claim says of the pass in which record i, a skip, was returned
SkipUnwound(i) ==
    LET k == Tr[i].layer
        p == Tr[i].pass
    IN /\ \A j \in 1..Len(Tr) :
             Tr[j].pass = p /\ Tr[j].layer > k => Tr[j].fn \notin {"entry", "exit"}
       /\ \A j \in 1..Len(Tr) : Tr[j].pass = p => Tr[j].fn # "handler"
       /\ LayersRun("exit", p) = DownFrom(k)
       /\ LayersRun("exitJudge", p) = DownFrom(k)
       /\ Tr[i + 1].fn = "exit" /\ Tr[i + 1].arg = Tr[i].out

(* C31: when the entry judge of the k-th layer of the stack returns skip, no
   layer behind the k-th runs its entry or exit hook in that pass, the wrapped
   operation is not called, and the exit hooks and exit judges that run in
   that pass are those of layers k, ..., 1, in that order, the first of them
   receiving the judge's value. *)
C31_SkipUnwinding ==
    lobs.done => \A i \in 1..Len(Tr) : Tr[i].kind = "skip" => SkipUnwound(i)

-----------------------------------------------------------------------------
(* Result selection *)

\* the nodes from t back to the head: t, its parent, ...
RECURSIVE Back(_, _)
Back(ns, t) == IF t = 0 THEN <<>> ELSE <<t>> \o Back(ns, ns[t].parent)

\* the error of the first node on the way back from t that holds one, as a set
NearestError(ns, t) ==
    LET back == Back(ns, t)
        errs == {q \in 1..Len(back) : ns[back[q]].result.kind = "error"}
    IN {ns[back[q]].result.value : q \in {o \in errs : \A m \in errs : o <= m}}

(* C32: stream called on any node of any chain returns the node's success
   value when it holds one, and otherwise the error of the nearest node on the
   way back to the head that holds an error; it never returns the
   'Result not found' error. *)
C32_ResultSelection ==
    last.called /\ last.mode = "sync"
    => /\ nodes[last.target].result.kind = "success"
          => last.ret = nodes[last.target].result.value
       /\ nodes[last.target].result.kind # "success"
          => NearestError(nodes, last.target) = {last.ret}
       /\ last.ret # Err("Result not found")

-----------------------------------------------------------------------------
(* Chain structure *)

\* the nodes reached from node i by following next, at most fuel of them
RECURSIVE Forward(_, _, _)
Forward(ns, i, fuel) ==
    IF i = 0 \/ fuel = 0 THEN <<>> ELSE <<i>> \o Forward(ns, ns[i].next, fuel - 1)

(* C33: after any sequence of building calls every node refers to the same
   chain head, the node made by from, which has no predecessor; every other
   node is the successor of its predecessor; and following the successor links
   from the head visits all nodes in the order in which they were added. *)
C33_ChainStructure ==
    Len(nodes) > 0
    => /\ nodes[1].parent = 0
       /\ \A n \in 1..Len(nodes) : nodes[n].start = 1
       /\ \A n \in 2..Len(nodes) :
             nodes[n].parent \in 1..Len(nodes) /\ nodes[nodes[n].parent].next = n
       /\ Forward(nodes, 1, Len(nodes) + 1) = [n \in 1..Len(nodes) |-> n]

-----------------------------------------------------------------------------
(* The missing-input guard *)

\* the positions in the call log of the handler / recoverHandler calls of node n
CallsOn(n) == {j \in 1..Len(Calls) : Calls[j].node = n /\ Calls[j].fn \in {"handler", "recover"}}

\* node n was handed what its predecessor p stored in this invocation
FedByPredecessor(n) ==
    LET p == nodes[n].parent
        first == CHOOSE j \in CallsOn(n) : \A o \in CallsOn(n) : j <= o
        c == Calls[first]
    IN /\ \E j \in CallsOn(p) : j < first
       /\ nodes[p].result.kind \in {"success", "error"}
       /\ c.fn = "handler" => nodes[p].result = makePipeSuccess(c.arg)
       /\ c.fn = "recover"
          => /\ nodes[p].result.kind = "error"
             /\ nodes[p].result.value = c.arg
             /\ nodes[p].result.origin = c.origin

(* C34: in every call every driven node that has a predecessor is handed the
   success value or the error its predecessor stored earlier in the same call;
   the predecessor's slot is never empty then, and no node ever holds, and no
   call ever returns, the 'Pipeline input data is null' error. *)
C34_InputGuardUnreachable ==
    last.called
    => /\ \A n \in 1..Len(nodes) :
             CallsOn(n) # {} /\ nodes[n].parent # 0 => FedByPredecessor(n)
       /\ \A n \in 1..Len(nodes) : nodes[n].result.value # Err(InputMsg)
       /\ last.ret # Err(InputMsg)

\* from(chk).repair(parent).joint(inc) called with 5: the second node is handed
\* the head's error and input, the third node the second node's value
C34_Witness ==
    /\ last.called /\ last.input = Val(5) /\ Len(nodes) = 3 /\ last.target = 3
    /\ nodes[2].parent = 1 /\ nodes[3].parent = 2
    /\ nodes[1].result = makePipeError(Err("odd"), Val(5), nodes[1].stage)
    /\ Calls = <<HandlerCall(1, Val(5)), RecoverCall(2, Err("odd"), Val(5)),
                 HandlerCall(2, Val(5)), HandlerCall(3, Val(5))>>
    /\ last.ret = Val(6)

-----------------------------------------------------------------------------
(* Driving order *)

\* the call log of a stream call: the first call is on the head, and every call
\* is on the node of the call before it or, after that node's handler was
\* called, on its successor
LogInOrder ==
    last.called /\ Calls # <<>>
    => /\ Calls[1].node = nodes[last.target].start
       /\ \A j \in 1..(Len(Calls) - 1) :
             \/ Calls[j + 1].node = Calls[j].node
             \/ /\ Calls[j].fn # "recover"
                /\ Calls[j + 1].node = nodes[Calls[j].node].next

\* one step of the streamAsync calls under way: a call starts on the head; it
\* moves to another node only from a node whose unit of work has returned, and
\* then to that node's successor; a handler is awaited only after the awaited
\* recovery of the same node, if any, has arrived
FlightsInOrder ==
    \A a \in 1..Len(flight') :
        IF a > Len(flight)
        THEN flight'[a].cur = nodes[flight'[a].target].start
        ELSE /\ flight'[a].cur # flight[a].cur
                => /\ flight[a].pc = "unit"
                   /\ flight'[a].cur = nodes[flight[a].cur].next
             /\ flight[a].pc = "recover" /\ flight'[a].pc # "recover"
                => /\ flight'[a].cur = flight[a].cur
                   /\ flight'[a].pc \in {"handler", "unit"}
             /\ flight[a].pc = "handler" /\ flight'[a].pc # "handler"
                => /\ flight'[a].cur = flight[a].cur
                   /\ flight'[a].pc = "unit"
                   /\ nodes'[flight[a].cur].result.kind \in {"success", "error"}

(* C35: within one stream or streamAsync call the nodes are driven in chain
   order from the head, and a node's unit of work begins only after its
   predecessor's unit of work has returned, the awaited recovery and the
   awaited handler included. *)
C35_ChainOrder == [][FlightsInOrder /\ LogInOrder']_vars

\* a streamAsync call has gone through all three stages and returned, and a
\* stream call has called the three handlers
C35_Witness ==
    /\ Len(nodes) = 3
    /\ \E a \in 1..Len(flight) : flight[a].pc = "done" /\ flight[a].cur = 3
    /\ last.called /\ Len(Calls) = 3 /\ Calls[3].node = 3

-----------------------------------------------------------------------------
(* The exit-without-entry guard *)

\* the entry hook of the layer of event i ran earlier in the same invocation
EntryRanBefore(i) ==
    \E j \in 1..(i - 1) : Tr[j].fn = "entry" /\ Tr[j].layer = Tr[i].layer

(* C36: in every sequence of invocations of a stack every layer that waits in
   the exited list holds a last input, set by its entry hook; every exit judge
   is consulted with a last input that is not null, and no exit judge ever
   answers with the 'Layer exit call only' override error. *)
C36_ExitGuardUnreachable ==
    /\ \A q \in 1..Len(exitLayers) : lref[exitLayers[q]] # NULL
    /\ \A i \in 1..Len(Tr) :
          Tr[i].fn = "exitJudge"
          => /\ Tr[i].orig # NULL
             /\ Tr[i].out.msg # "Layer exit call only"

\* a second invocation consults the exit judge of a layer whose entry hook ran
\* in the first invocation only
C36_Witness ==
    /\ lobs.k = 2 /\ lobs.done
    /\ \E i \in 1..Len(Tr) :
          /\ Tr[i].fn = "exitJudge" /\ ~EntryRanBefore(i)
          /\ Tr[i].orig # NULL

-----------------------------------------------------------------------------
(* Layer conservation *)

\* how often layer l is in the list
Occurrences(list, l) == Cardinality({q \in 1..Len(list) : list[q] = l})

(* C37: at every point of every invocation the pending-entry list and the
   exited list together hold every layer of the stack exactly once. *)
C37_LayerConservation ==
    /\ Len(entryLayers) + Len(exitLayers) = Len(lstack)
    /\ \A l \in 1..Len(lstack) :
          Occurrences(entryLayers, l) + Occurrences(exitLayers, l) = 1

\* in the middle of a second invocation that started from lists an entry error
\* had left split, both lists hold a layer
C37_Witness ==
    /\ lobs.k = 2 /\ lpc = "exiting"
    /\ lobs.exit0 # <<>>
    /\ Len(entryLayers) = 1 /\ Len(exitLayers) = 1

-----------------------------------------------------------------------------
(* Calls on a node that is not the last one *)

\* every stage was added to the last node: node i's predecessor is node i - 1
Linear(ns) ==
    \A i \in 1..Len(ns) :
       /\ ns[i].parent = i - 1
       /\ ns[i].next = IF i < Len(ns) THEN i + 1 ELSE 0

\* the chain as it was when node t was its last node
Prefix(ns, t) == [i \in 1..t |-> IF i = t THEN [ns[i] EXCEPT !.next = 0] ELSE ns[i]]

(* C38: a stream / streamAsync call on a node t that is not the last node of
   its chain does not end the drive at t: when t ends with a success the
   handler of the next stage is called with it, and when no call halts the
   drive every stage down to the last appended node is driven. The Result
   returned, and the outcomes of the nodes down to t, are those of the same
   call on the chain without the stages after t. *)
C38_DriveBeyondInvoked ==
    [][(last'.called /\ Linear(nodes) /\ last'.target < Len(nodes))
       => LET t == last'.target
              calls == last'.calls
              sync == last'.mode = "sync"
              own == {j \in 1..Len(calls) : calls[j].fn \in {"handler", "recover"}}
              driven == {calls[j].node : j \in own}
              alone == CHOOSE r \in {d.nodes : d \in {doStream(Prefix(nodes, t), 1, last'.input, sync)}} : TRUE
          IN /\ (t \in driven /\ nodes'[t].result.kind = "success")
                => \E j \in own : calls[j] = HandlerCall(t + 1, nodes'[t].result.value)
             /\ (\A j \in own : ~Halts(nodes', calls[j], sync))
                => driven = 1..Len(nodes)
             /\ last'.ret = getStreamResult(alone, t)
             /\ \A i \in 1..t : nodes'[i].result = alone[i].result]_vars

\* from(chk).joint(inc).joint(inc): stream(6) on the head calls all three
\* handlers and returns the head's 6; the last node holds 8
C38_Witness ==
    /\ last.called /\ last.mode = "sync" /\ last.target = 1 /\ last.input = Val(6)
    /\ Len(nodes) = 3 /\ Linear(nodes)
    /\ Calls = <<HandlerCall(1, Val(6)), HandlerCall(2, Val(6)), HandlerCall(3, Val(7))>>
    /\ nodes[3].result.value = Val(8)
    /\ last.ret = Val(6)

-----------------------------------------------------------------------------
(* The caller's layer array *)

\* the array the stack was built from, as the caller sees it: stackLayer works
\* on a copy of it ([...layer]); the pending list of stackAsyncLayer is the
\* array itself
CallerArray == IF lmode = "async" THEN entryLayers ELSE Ascending

(* C39: under stackLayer and under stackAsyncLayer the array the stack was
   built from holds, at every time, the layers it was given, in the order in
   which it was given them. *)
C39_CallerArrayUntouched == CallerArray = Ascending

====
